---- MODULE Spec2Model ----
(***************************************************************************)
(* Verification model of the kidTests admin/public web client.             *)
(*                                                                         *)
(* The relational store (tests, test_versions, questions, options,         *)
(* test_links, submissions, answers, profiles) and the session provider    *)
(* are external collaborators: every awaited call is one step whose        *)
(* outcome (rows or an error) the environment chooses.  Each view of the   *)
(* client is a small state machine whose position is the await it is       *)
(* suspended at.                                                           *)
(*                                                                         *)
(* Specifications:                                                         *)
(*   SpecGuard   useAdminGuard (both hook files) and the dashboard load    *)
(*   SpecDelete  DashboardPage.handleDeleteTest (cascade deletion)         *)
(*   SpecAuthor  CreateTestPage (form editing, validation, handleSubmit)   *)
(*               followed by link issuance and the public load             *)
(*   SpecLink    TestLinkPage.load, repeated by one administrator          *)
(***************************************************************************)
EXTENDS Integers, Sequences, FiniteSets, TLC

VARIABLES
    \* ---- relational store ------------------------------------------------
    tests,          \* set of [id, slug, title, status]
    versions,       \* set of [id, test_id, version, published_at]
    questions,      \* set of [id, test_version_id, text, kind, ord]
    options,        \* set of [id, question_id, text, ord]
    links,          \* set of [id, test_version_id, public_id, is_active]
    submissions,    \* set of [id, test_version_id]
    answers,        \* set of [id, submission_id, question_id, option_id, free_text]
    nextId,         \* next identifier the store hands out
    \* ---- session provider and profiles ------------------------------------
    authSession,    \* NoSession or the signed-in user id
    profiles,       \* user id -> "admin" | "user" | "none" (no row)
    \* ---- useAdminGuard ----------------------------------------------------
    hook,           \* "main" (hooks/useAdminGuard.ts) | "variant" (part_001)
    pathname,       \* what usePathname() returns
    gState,         \* GuardState: "loading" | "authorized"
    viewMounted,    \* the component using the guard is mounted
    checks,         \* sequence of checkAccess() invocations
    redirects,      \* set of [check, at]: router.replace('/login') calls
    \* ---- DashboardPage ----------------------------------------------------
    dashPc,         \* position of load(): "none","tests","versions","subs","done"
    dashCancelled,  \* the load effect's `cancelled` flag
    dashLoading,    \* isLoading
    dashError,      \* error (TRUE when a message is set)
    dTests,         \* tests      (local list)
    dVersions,      \* versions   (local list)
    dSubs,          \* submissions (local list)
    \* ---- handleDeleteTest -------------------------------------------------
    delPc,          \* position in handleDeleteTest
    delTarget,      \* id of the test being deleted
    versionIds,     \* const versionIds
    submissionIds,  \* const submissionIds
    questionIds,    \* const questionIds
    delAlert,       \* "none" | "ok" | "fail": which alert was shown
    delCalls,       \* sequence of store calls issued, in order
    delFailedCall,  \* the call of this run that failed, or "none"
    delSnap,        \* rows of the target test when the deletion began
    \* ---- CreateTestPage --------------------------------------------------
    title,          \* title (a character sequence)
    formQs,         \* questions: sequence of [id, text, kind, options]
    isSubmitting,   \* isSubmitting
    subPc,          \* position in handleSubmit: "idle" or the awaited insert
    subForm,        \* title and questions captured by the running handleSubmit
    subTestId,      \* testRow.id
    subVersionId,   \* versionRow.id
    subInserted,    \* insertedQuestions: ids in the order returned
    authAlert,      \* last alert() since the last edit, or "none"
    authNav,        \* router.push('/dashboard') was called
    authCalls,      \* inserts issued by handleSubmit, in order
    authFailedCall, \* the insert that failed, or "none"
    authRan,        \* a handleSubmit of this page visit passed validation
    \* ---- TestLinkPage ----------------------------------------------------
    linkPc,         \* position in load(): "none", the awaited call, "done", "error"
    slug,           \* params.slug
    testData,       \* testData.id
    versionData,    \* versionData.id
    lpFound,        \* number of rows the test_links lookup matched
    ensuredLink,    \* ensuredLink: [id, public_id, is_active] or NoLink
    link,           \* link (view state)
    lpError,        \* error !== null
    lpCancelled,    \* cancelled of the effect that started the load
    loads,          \* number of load() runs started
    linkIssued,     \* what each load() that ran to its end ensured, in order
    \* ---- PublicTestPage --------------------------------------------------
    pubPc,          \* position in loadData(): "none", the awaited call, "done", "error"
    publicId,       \* params.publicId
    testVersionRaw, \* testVersionRaw: [id, test_id]
    typedQuestions, \* typedQuestions
    pQuestions,     \* questions (view state): [id, kind, text, ord, options]
    testVersionId,  \* testVersionId (view state)
    loadError,      \* loadError !== null
    isMounted,      \* isMounted of the effect that started loadData
    testRow,        \* testRow.title of loadData()
    testTitle,      \* testTitle (view state)
    answersState,   \* answersState: question id -> option id (SINGLE) or text (TEXT)
    participant,    \* participant
    pubSubmitting,  \* isSubmitting of the public form
    ansPc,          \* position in the public handleSubmit: "idle" or the awaited insert
    ensuredAnswers, \* ensuredAnswers of the running handleSubmit
    submissionId,   \* submissionId of the running handleSubmit
    ansAlert,       \* last alert() of the public form since the last edit, or "none"
    ansNav,         \* router.push(`/t/${publicId}/done`) was called
    ansCalls,       \* inserts issued by the public handleSubmit runs, in order
    ansRuns,        \* number of handleSubmit runs that passed validation
    recorded,       \* ids of the submissions rows the public form inserted
    \* ---- TestStatsPage ----------------------------------------------------
    stPc,           \* position of load(): "none","selTest",...,"done","error"
    stSlug,         \* params.slug of the statistics view
    stCancelled,    \* the load effect's `cancelled` flag
    stLoad,         \* locals of load(): testData, versionData, questionsData, ...
    stError,        \* error (TRUE when a message is set)
    stTest,         \* test (its id)
    stVersion,      \* testVersion (its id)
    stQuestions,    \* questions
    stOptions,      \* options
    stSubmissions,  \* submissions
    stAnswers,      \* answers
    dateFrom,       \* dateFrom: a day number, NoId for ''
    dateTo,         \* dateTo: a day number, NoId for ''
    participantQuery,
    utcOffset,      \* local time minus UTC in the administrator's browser
    csv,            \* the content of the last file handleExportCsv produced
    \* ---- TestLinkPage in a second administrator's browser -----------------
    peerPc,         \* position of that load(): "none","selTest",...,"done","error"
    peerSlug,       \* its params.slug
    peerTest,       \* its testData (the id)
    peerVersion,    \* its versionData (the id)
    \* ---- LoginPage -------------------------------------------------------
    loginPc,        \* position of handleSubmit: "idle" | "signIn"
    loginSubmitting,\* isSubmitting
    loginError      \* error (TRUE when a message is set)

storeVars == <<tests, versions, questions, options, links, submissions, answers, nextId>>
authVars  == <<authSession, profiles>>
guardVars == <<hook, pathname, gState, viewMounted, checks, redirects>>
dashVars  == <<dashPc, dashCancelled, dashLoading, dashError, dTests, dVersions, dSubs>>
delVars   == <<delPc, delTarget, versionIds, submissionIds, questionIds, delAlert,
               delCalls, delFailedCall, delSnap>>

formVars  == <<title, formQs>>
linkVars  == <<linkPc, slug, testData, versionData, lpFound, ensuredLink, link, lpError,
               lpCancelled, loads, linkIssued>>
pubVars   == <<pubPc, publicId, testVersionRaw, typedQuestions, pQuestions, testVersionId,
               loadError, isMounted, testRow, testTitle, answersState>>
ansVars   == <<participant, pubSubmitting, ansPc, ensuredAnswers, submissionId, ansAlert,
               ansNav, ansCalls, ansRuns, recorded>>
statsVars == <<stPc, stSlug, stCancelled, stLoad, stError, stTest, stVersion, stQuestions,
               stOptions, stSubmissions, stAnswers, dateFrom, dateTo, participantQuery,
               utcOffset, csv>>
peerVars  == <<peerPc, peerSlug, peerTest, peerVersion>>
loginVars == <<loginPc, loginSubmitting, loginError>>
moreVars  == <<peerVars, loginVars>>
subVars   == <<isSubmitting, subPc, subForm, subTestId, subVersionId, subInserted,
               authAlert, authNav, authCalls, authFailedCall, authRan>>

vars == <<storeVars, authVars, guardVars, dashVars, delVars, formVars, subVars, linkVars,
          pubVars, ansVars, statsVars, moreVars>>

\* what the steps of one view leave alone: the state of the other views
guardFixed == <<hook, gState, viewMounted, checks, redirects>>
guardRest  == <<storeVars, delVars, formVars, subVars, linkVars, pubVars, ansVars, statsVars,
                moreVars>>
delRest    == <<authVars, guardVars, formVars, subVars, linkVars, pubVars, ansVars, statsVars,
                moreVars>>
authorRest == <<authVars, guardFixed, dashVars, delVars, linkVars, pubVars, ansVars,
                statsVars, moreVars>>
linkRest   == <<authVars, guardFixed, dashVars, delVars, formVars, subVars, pubVars, ansVars,
                statsVars, moreVars>>
ansRest    == <<authVars, guardVars, dashVars, delVars, formVars, subVars, linkVars,
                statsVars, moreVars>>
statsRest  == <<authVars, guardFixed, dashVars, delVars, formVars, subVars, linkVars, pubVars,
                ansVars, moreVars>>
peerRest   == <<authVars, guardVars, dashVars, delVars, formVars, subVars, linkVars, pubVars,
                ansVars, statsVars, loginVars>>
loginRest  == <<storeVars, profiles, guardFixed, dashVars, delVars, formVars, subVars,
                linkVars, pubVars, ansVars, statsVars, peerVars>>
pubRest    == <<storeVars, ansRest, ansVars>>

(***************************************************************************)
(* Bounds of the model.                                                    *)
(***************************************************************************)
MaxChecks == 2          \* checkAccess() invocations per guard instance
MaxVersions == 2        \* versions of the test that is deleted
MaxRows == 2            \* rows of that test in each dependent table
MaxQuestions == 2        \* questions in the form at once
MaxFields == 4          \* text inputs (questions plus options) of the form
MaxLoads == 2           \* load() runs of the share view
MaxSubmits == 2         \* runs of the public handleSubmit that pass validation
MaxTests == 2           \* tests authored in a row

(***************************************************************************)
(* Small helpers.                                                          *)
(***************************************************************************)
NoSession == "none"
Users     == {"u1", "u2"}
Paths     == {"/login", "/dashboard"}
Null      == "null"
NoId      == 0                \* a null id or timestamp column
NullText  == <<Null>>         \* a null text column (texts are character sequences)

\* the profiles tables of the model: u1's row takes every value, u2 is a
\* signed-up user who is no administrator
ProfileTables == {p \in [Users -> {"admin", "user", "none"}] : p["u2"] = "user"}

Ids(rows) == {r.id : r \in rows}

(***************************************************************************)
(* A bystander test with one row in every table: it belongs to nobody's    *)
(* operation and lets the filters of every query matter.                   *)
(***************************************************************************)
OtherTests       == {[id |-> 901, slug |-> <<"o", "-", "z">>, title |-> <<"o">>,
                      status |-> "draft"]}
OtherVersions    == {[id |-> 902, test_id |-> 901, version |-> 1, published_at |-> NoId]}
OtherQuestions   == {[id |-> 903, test_version_id |-> 902, text |-> <<"b">>,
                      kind |-> "SINGLE", ord |-> 1]}
OtherOptions     == {[id |-> 904, question_id |-> 903, text |-> <<"a">>, ord |-> 1],
                     [id |-> 905, question_id |-> 903, text |-> <<"b">>, ord |-> 2]}
OtherLinks       == {[id |-> 906, test_version_id |-> 902, public_id |-> 906,
                      is_active |-> TRUE]}
OtherSubmissions == {[id |-> 907, test_version_id |-> 902, participant |-> <<"o">>,
                      created_at |-> 1]}
OtherAnswers     == {[id |-> 908, submission_id |-> 907, question_id |-> 903,
                      option_id |-> 904, free_text |-> NullText]}

StoreIsOther ==
    /\ tests = OtherTests
    /\ versions = OtherVersions
    /\ questions = OtherQuestions
    /\ options = OtherOptions
    /\ links = OtherLinks
    /\ submissions = OtherSubmissions
    /\ answers = OtherAnswers
    /\ nextId = 1

(***************************************************************************)
(* useAdminGuard                                                           *)
(***************************************************************************)
NewCheck(p) == [pc |-> "getSession", isMounted |-> TRUE, path |-> p,
                session |-> NoSession, profile |-> Null,
                truth |-> Null, result |-> "pending"]

\* profiles.select('is_admin').eq('id', uid).maybeSingle() / .single():
\* the row of that user, or no data when there is no row
ProfileOf(uid) == IF profiles[uid] = "none" THEN Null ELSE profiles[uid]

\* a guard that only tests that a profile row came back
NotAdmin_RowOnly(profile) == profile = Null

\* !profile?.is_admin
NotAdmin(profile) == profile # "admin"

\* a hook that redirects only while its effect is live
RedirectIssued_WhileMounted(i, path) ==
    IF ~checks[i].isMounted \/ (hook = "main" /\ path = "/login")
    THEN redirects
    ELSE redirects \cup {[check |-> i, at |-> pathname]}

\* if (pathname !== '/login') router.replace('/login') in the main hook;
\* the variant calls router.replace('/login') unconditionally
RedirectIssued(i, path) ==
    IF hook = "main" /\ path = "/login"
    THEN redirects
    ELSE redirects \cup {[check |-> i, at |-> pathname]}

\* a hook that sets the state whether or not its cleanup has run
SetAuthorized_Unguarded(c) == "authorized"

\* if (isMounted) setState('authorized')
SetAuthorized(c) == IF c.isMounted THEN "authorized" ELSE gState

\* a hook that falls back to loading when a check refuses access
RefusedState_Loading == "loading"

\* the unauthorized returns of checkAccess() call no setState
RefusedState == gState

GuardIdle(path) ==
             /\ hook = "main"
             /\ pathname = path
             /\ gState = "authorized"
             /\ viewMounted = TRUE
             /\ checks = <<>>
             /\ redirects = {}
             /\ authSession = "u1"
             /\ profiles = [u \in Users |-> "admin"]

DashIdle == /\ dashPc = "none"
            /\ dashCancelled = FALSE
            /\ dashLoading = TRUE
            /\ dashError = FALSE
            /\ dTests = {}
            /\ dVersions = {}
            /\ dSubs = {}

DelIdle == /\ delPc = "idle"
           /\ delTarget = 0
           /\ versionIds = {}
           /\ submissionIds = {}
           /\ questionIds = {}
           /\ delAlert = "none"
           /\ delCalls = <<>>
           /\ delFailedCall = "none"
           /\ delSnap = [versions |-> {}, questions |-> {}, options |-> {},
                         links |-> {}, submissions |-> {}, answers |-> {}]

NoLink == [id |-> NoId, public_id |-> NoId, is_active |-> FALSE]

LinkIdle == /\ linkPc = "none"
            /\ slug = <<>>
            /\ testData = NoId
            /\ versionData = NoId
            /\ lpFound = 0
            /\ ensuredLink = NoLink
            /\ link = NoLink
            /\ lpError = FALSE
            /\ lpCancelled = FALSE
            /\ loads = 0
            /\ linkIssued = <<>>

NoVersion == [id |-> NoId, test_id |-> NoId]

PubIdle == /\ pubPc = "none"
           /\ publicId = NoId
           /\ testVersionRaw = NoVersion
           /\ typedQuestions = <<>>
           /\ pQuestions = <<>>
           /\ testVersionId = NoId
           /\ loadError = FALSE
           /\ isMounted = TRUE
           /\ testRow = <<>>
           /\ testTitle = <<>>
           /\ answersState = <<>>
           /\ participant = <<>>
           /\ pubSubmitting = FALSE
           /\ ansPc = "idle"
           /\ ensuredAnswers = <<>>
           /\ submissionId = NoId
           /\ ansAlert = "none"
           /\ ansNav = FALSE
           /\ ansCalls = <<>>
           /\ ansRuns = 0
           /\ recorded = {}

\* the locals of the statistics load() outside a run
NoStatsLoad == [testData |-> NoId, versionData |-> NoId, questionsData |-> <<>>,
                optionsData |-> <<>>, submissionsData |-> <<>>]

\* TestStatsPage never opened, in a browser of the given offset
\* no second administrator; the login form untouched
MoreIdle == /\ peerPc = "none"
            /\ peerSlug = <<>>
            /\ peerTest = NoId
            /\ peerVersion = NoId
            /\ loginPc = "idle"
            /\ loginSubmitting = FALSE
            /\ loginError = FALSE

StatsIdle(off) ==
             /\ stPc = "none"
             /\ stSlug = <<>>
             /\ stCancelled = FALSE
             /\ stLoad = NoStatsLoad
             /\ stError = FALSE
             /\ stTest = NoId
             /\ stVersion = NoId
             /\ stQuestions = <<>>
             /\ stOptions = <<>>
             /\ stSubmissions = <<>>
             /\ stAnswers = {}
             /\ dateFrom = NoId
             /\ dateTo = NoId
             /\ participantQuery = <<>>
             /\ utcOffset = off
             /\ csv = <<>>

\* const defaultQuestion = () => ({ id, text: '', kind: 'SINGLE', options: ['', ''] })
defaultQuestion(id) == [id |-> id, text |-> <<>>, kind |-> "SINGLE",
                        options |-> <<(<<>>), (<<>>)>>]

NoForm == [title |-> <<>>, questions |-> <<>>, slug |-> <<>>]

\* CreateTestPage after its first render
FormFresh == /\ title = <<>>
             /\ formQs = <<defaultQuestion(1)>>

SubIdle == /\ isSubmitting = FALSE
           /\ subPc = "idle"
           /\ subForm = NoForm
           /\ subTestId = NoId
           /\ subVersionId = NoId
           /\ subInserted = <<>>
           /\ authAlert = "none"
           /\ authNav = FALSE
           /\ authCalls = <<>>
           /\ authFailedCall = "none"
           /\ authRan = FALSE

\* the state after the first render: the effect has run and checkAccess()
\* is suspended at getSession()
GuardInit ==
    /\ hook \in {"main", "variant"}
    /\ pathname \in Paths
    /\ authSession \in {NoSession} \cup Users
    /\ profiles \in ProfileTables
    /\ gState = "loading"
    /\ viewMounted = TRUE
    /\ checks = <<NewCheck(pathname)>>
    /\ redirects = {}
    /\ StoreIsOther
    /\ DashIdle
    /\ DelIdle
    /\ FormFresh
    /\ SubIdle
    /\ LinkIdle
    /\ PubIdle
    /\ StatsIdle(0)
    /\ MoreIdle

\* await supabase.auth.getSession() returns
GetSessionReturns(i) ==
    /\ checks[i].pc = "getSession"
    /\ IF authSession = NoSession
       THEN /\ redirects' = RedirectIssued(i, checks[i].path)
            /\ checks' = [checks EXCEPT ![i].pc = "done",
                                        ![i].result = "unauthorized"]
            /\ gState' = RefusedState
       ELSE /\ redirects' = redirects
            /\ checks' = [checks EXCEPT ![i].pc = "getProfile",
                                        ![i].session = authSession]
            /\ gState' = gState
    /\ UNCHANGED <<hook, pathname, viewMounted>>
    /\ UNCHANGED <<authVars, dashVars, guardRest>>

\* await profiles...eq('id', session.user.id) returns: the row, or an error
\* (data is null on error; the hooks do not read the error)
GetProfileReturns(i) ==
    /\ checks[i].pc = "getProfile"
    /\ \E failed \in BOOLEAN :
         LET profile == IF failed THEN Null ELSE ProfileOf(checks[i].session)
             \* what the table held for the session's user (not read by the code)
             truth   == IF failed THEN Null ELSE profiles[checks[i].session]
             seen    == [checks[i] EXCEPT !.profile = profile, !.truth = truth]
         IN
         IF NotAdmin(profile)
         THEN /\ gState' = RefusedState
              /\ IF hook = "main"
                 THEN /\ redirects' = RedirectIssued(i, checks[i].path)
                      /\ checks' = [checks EXCEPT ![i] =
                             [seen EXCEPT !.pc = "done", !.result = "unauthorized"]]
                 ELSE /\ redirects' = redirects
                      /\ checks' = [checks EXCEPT ![i] =
                             [seen EXCEPT !.pc = "signOut", !.result = "unauthorized"]]
         ELSE /\ gState' = SetAuthorized(checks[i])
              /\ redirects' = redirects
              /\ checks' = [checks EXCEPT ![i] =
                     [seen EXCEPT !.pc = "done",
                                  !.result = IF checks[i].isMounted
                                             THEN "authorized" ELSE "suppressed"]]
    /\ UNCHANGED <<hook, pathname, viewMounted>>
    /\ UNCHANGED <<authVars, dashVars, guardRest>>

\* variant hook: await supabase.auth.signOut() returns (it may fail and
\* leave the session), then router.replace('/login')
SignOutReturns(i) ==
    /\ checks[i].pc = "signOut"
    /\ \E failed \in BOOLEAN :
         authSession' = IF failed THEN authSession ELSE NoSession
    /\ redirects' = RedirectIssued(i, checks[i].path)
    /\ checks' = [checks EXCEPT ![i].pc = "done"]
    /\ UNCHANGED <<profiles, hook, pathname, gState, viewMounted>>
    /\ UNCHANGED <<dashVars, guardRest>>

\* the router changes the path; in the main hook pathname is a dependency
\* of the effect: its cleanup runs and checkAccess() starts again
Navigate(p) ==
    /\ p # pathname
    /\ pathname' = p
    /\ IF hook = "main" /\ viewMounted
       THEN /\ Len(checks) < MaxChecks
            /\ checks' = Append([i \in 1..Len(checks) |->
                                    [checks[i] EXCEPT !.isMounted = FALSE]],
                                NewCheck(p))
       ELSE checks' = checks
    /\ UNCHANGED <<hook, gState, viewMounted, redirects>>
    /\ UNCHANGED <<authVars, dashVars, guardRest>>

\* the component unmounts: the cleanup of every effect runs
Unmount ==
    /\ viewMounted
    /\ viewMounted' = FALSE
    /\ checks' = [i \in 1..Len(checks) |-> [checks[i] EXCEPT !.isMounted = FALSE]]
    /\ dashCancelled' = (dashCancelled \/ dashPc # "none")
    /\ UNCHANGED <<hook, pathname, gState, redirects>>
    /\ UNCHANGED <<dashPc, dashLoading, dashError, dTests, dVersions, dSubs>>
    /\ UNCHANGED <<authVars, guardRest>>

\* the session provider: sign-in, sign-out or expiry in another tab
SessionChanges(s) ==
    /\ s # authSession
    /\ authSession' = s
    /\ UNCHANGED <<profiles, guardVars, dashVars, guardRest>>

\* the profiles table is edited by its owner
ProfileChanges(u, v) ==
    /\ profiles[u] # v
    /\ profiles' = [profiles EXCEPT ![u] = v]
    /\ profiles' \in ProfileTables
    /\ UNCHANGED <<authSession, guardVars, dashVars, guardRest>>

(***************************************************************************)
(* DashboardPage: the load effect and what the page renders                *)
(***************************************************************************)
\* the early returns of the component body
DashRender ==
    IF gState # "authorized" THEN "placeholder"
    ELSE IF dashLoading THEN "loading"
    ELSE IF dashError THEN "error"
    ELSE IF dTests = {} THEN "empty"
    ELSE "list"

\* if (!isAuthorized) return;  otherwise load() starts
LoadMayStart == gState = "authorized"

DashLoadStart ==
    /\ viewMounted
    /\ dashPc = "none"
    /\ LoadMayStart
    /\ dashPc' = "tests"
    /\ dashLoading' = TRUE
    /\ dashError' = FALSE
    /\ UNCHANGED <<dashCancelled, dTests, dVersions, dSubs>>
    /\ UNCHANGED <<authVars, guardVars, guardRest>>

\* catch: if (!cancelled) setError(...);  finally: if (!cancelled) setIsLoading(false)
DashThrow ==
    /\ dashPc' = "done"
    /\ dashError' = IF dashCancelled THEN dashError ELSE TRUE
    /\ dashLoading' = IF dashCancelled THEN dashLoading ELSE FALSE
    /\ UNCHANGED <<dashCancelled, dTests, dVersions, dSubs>>

\* return inside try: only the finally block runs
DashReturn ==
    /\ dashPc' = "done"
    /\ dashLoading' = IF dashCancelled THEN dashLoading ELSE FALSE
    /\ UNCHANGED <<dashCancelled, dashError>>

\* await tests.select(...).order('created_at') returns
DashTestsReturn ==
    /\ dashPc = "tests"
    /\ \E failed \in BOOLEAN :
         IF failed THEN DashThrow
         ELSE IF dashCancelled
              THEN DashReturn /\ UNCHANGED <<dTests, dVersions, dSubs>>
         ELSE IF tests = {}
              THEN /\ DashReturn
                   /\ dTests' = {} /\ dVersions' = {} /\ dSubs' = {}
         ELSE /\ dTests' = tests
              /\ dashPc' = "versions"
              /\ UNCHANGED <<dashCancelled, dashLoading, dashError, dVersions, dSubs>>
    /\ UNCHANGED <<authVars, guardVars, guardRest>>

\* await test_versions.select(...).in('test_id', testIds) returns
DashVersionsReturn ==
    /\ dashPc = "versions"
    /\ \E failed \in BOOLEAN :
         LET rows == {v \in versions : v.test_id \in Ids(dTests)} IN
         IF failed THEN DashThrow
         ELSE IF dashCancelled
              THEN DashReturn /\ UNCHANGED <<dTests, dVersions, dSubs>>
         ELSE IF rows = {}
              THEN /\ DashReturn
                   /\ dVersions' = {} /\ dSubs' = {}
                   /\ UNCHANGED dTests
         ELSE /\ dVersions' = rows
              /\ dashPc' = "subs"
              /\ UNCHANGED <<dashCancelled, dashLoading, dashError, dTests, dSubs>>
    /\ UNCHANGED <<authVars, guardVars, guardRest>>

\* await submissions.select(...).in('test_version_id', versionIds) returns
DashSubsReturn ==
    /\ dashPc = "subs"
    /\ \E failed \in BOOLEAN :
         LET rows == {s \in submissions : s.test_version_id \in Ids(dVersions)} IN
         IF failed THEN DashThrow
         ELSE IF dashCancelled
              THEN DashReturn /\ UNCHANGED <<dTests, dVersions, dSubs>>
         ELSE /\ DashReturn
              /\ dSubs' = rows
              /\ UNCHANGED <<dTests, dVersions>>
    /\ UNCHANGED <<authVars, guardVars, guardRest>>

GuardNext ==
    \/ \E i \in 1..Len(checks) : GetSessionReturns(i)
    \/ \E i \in 1..Len(checks) : GetProfileReturns(i)
    \/ \E i \in 1..Len(checks) : SignOutReturns(i)
    \/ \E p \in Paths : Navigate(p)
    \/ Unmount
    \/ \E s \in {NoSession} \cup Users : SessionChanges(s)
    \/ \E u \in Users, v \in {"admin", "user", "none"} : ProfileChanges(u, v)
    \/ DashLoadStart
    \/ DashTestsReturn
    \/ DashVersionsReturn
    \/ DashSubsReturn

SpecGuard == GuardInit /\ [][GuardNext]_vars

(***************************************************************************)
(* Store contents for the deletion: a test (id 1) with nV versions and nQ, *)
(* nO, nL, nS, nA questions, options, links, submissions and answers,      *)
(* dealt out to their parents in turn.  Every row references an existing   *)
(* parent, as the store's foreign keys require.                            *)
(***************************************************************************)
Turn(k, n) == ((k - 1) % n) + 1

TargetTests == {[id |-> 1, slug |-> <<"t", "-", "z">>, title |-> <<"t">>, status |-> "draft"]}

TargetVersions(nV) ==
    {[id |-> 10 + i, test_id |-> 1, version |-> i, published_at |-> NoId] : i \in 1..nV}

TargetQuestions(nV, nQ) ==
    IF nV = 0 THEN {}
    ELSE {[id |-> 20 + j, test_version_id |-> 10 + Turn(j, nV), text |-> <<"a">>,
           kind |-> "SINGLE", ord |-> j] : j \in 1..nQ}

\* options go to the questions in turn; a question that gets none is a TEXT one
TargetKinds(qs, os) ==
    {[q EXCEPT !.kind = IF \E o \in os : o.question_id = q.id
                        THEN "SINGLE" ELSE "TEXT"] : q \in qs}

TargetOptions(nV, nQ, nO) ==
    IF nV = 0 \/ nQ = 0 THEN {}
    ELSE {[id |-> 30 + k, question_id |-> 20 + Turn(k, nQ), text |-> <<"a">>,
           ord |-> k] : k \in 1..nO}

TargetLinks(nV, nL) ==
    IF nV = 0 THEN {}
    ELSE {[id |-> 40 + l, test_version_id |-> 10 + Turn(l, nV), public_id |-> 40 + l,
           is_active |-> TRUE] : l \in 1..nL}

TargetSubmissions(nV, nS) ==
    IF nV = 0 THEN {}
    ELSE {[id |-> 50 + m, test_version_id |-> 10 + Turn(m, nV), participant |-> <<"p">>,
           created_at |-> m] : m \in 1..nS}

\* an answer belongs to a submission and to a question of that submission's version
TargetAnswers(nV, nQ, nO, nS, nA) ==
    IF nV = 0 \/ nQ = 0 \/ nS = 0 THEN {}
    ELSE LET sub(a) == 50 + Turn(a, nS)
             ver(a) == 10 + Turn(Turn(a, nS), nV)
             qs(a)  == {q \in TargetQuestions(nV, nQ) : q.test_version_id = ver(a)}
             qid(a) == (CHOOSE q \in qs(a) : \A r \in qs(a) : q.id <= r.id).id
             os(a)  == {o \in TargetOptions(nV, nQ, nO) : o.question_id = qid(a)}
         IN {[id |-> 60 + a, submission_id |-> sub(a), question_id |-> qid(a),
              option_id |-> IF os(a) = {} THEN NoId
                            ELSE (CHOOSE o \in os(a) : \A r \in os(a) : o.id <= r.id).id,
              free_text |-> IF os(a) = {} THEN <<"a">> ELSE NullText]
                : a \in {b \in 1..nA : qs(b) # {}}}

\* the dashboard after a completed load() of the whole store
DashLoaded ==
    /\ dashPc = "done"
    /\ dashCancelled = FALSE
    /\ dashLoading = FALSE
    /\ dashError = FALSE
    /\ dTests = tests
    /\ dVersions = versions
    /\ dSubs = submissions

DeleteInit ==
    /\ \E nV \in 0..MaxVersions :
       \E nQ \in 0..MaxRows, nO \in 0..MaxRows, nL \in 0..MaxRows,
          nS \in 0..MaxRows, nA \in 0..MaxRows :
          /\ tests = TargetTests \cup OtherTests
          /\ versions = TargetVersions(nV) \cup OtherVersions
          /\ questions = TargetKinds(TargetQuestions(nV, nQ), TargetOptions(nV, nQ, nO))
                            \cup OtherQuestions
          /\ options = TargetOptions(nV, nQ, nO) \cup OtherOptions
          /\ links = TargetLinks(nV, nL) \cup OtherLinks
          /\ submissions = TargetSubmissions(nV, nS) \cup OtherSubmissions
          /\ answers = TargetAnswers(nV, nQ, nO, nS, nA) \cup OtherAnswers
    /\ nextId = 100
    /\ GuardIdle("/dashboard")
    /\ DashLoaded
    /\ DelIdle
    /\ FormFresh
    /\ SubIdle
    /\ LinkIdle
    /\ PubIdle
    /\ StatsIdle(0)
    /\ MoreIdle

(***************************************************************************)
(* DashboardPage.handleDeleteTest                                          *)
(***************************************************************************)
VersionsOfTest(t)   == {v \in versions : v.test_id = t}
SubsOfVersions(vs)  == {x \in submissions : x.test_version_id \in vs}
AnswersOfSubs(ss)   == {a \in answers : a.submission_id \in ss}
QuestionsOfVersions(vs) == {q \in questions : q.test_version_id \in vs}
OptionsOfQuestions(qs)  == {o \in options : o.question_id \in qs}
LinksOfVersions(vs) == {l \in links : l.test_version_id \in vs}

\* rows a test owns, directly or through its versions
OwnedBy(t) ==
    LET vs == Ids(VersionsOfTest(t))
        qs == Ids(QuestionsOfVersions(vs))
        ss == Ids(SubsOfVersions(vs))
    IN [versions |-> vs, questions |-> qs, options |-> Ids(OptionsOfQuestions(qs)),
        links |-> Ids(LinksOfVersions(vs)), submissions |-> ss,
        answers |-> Ids(AnswersOfSubs(ss))]

\* a deletion that gives up on the questions when there are no submissions
DelSequel_StopWithoutSubs(call, some) ==
    CASE call = "selVersions"  -> IF some THEN "selSubs" ELSE "delTest"
      [] call = "selSubs"      -> IF some THEN "delAnswers" ELSE "delLinks"
      [] call = "delAnswers"   -> "delSubs"
      [] call = "delSubs"      -> "selQuestions"
      [] call = "selQuestions" -> IF some THEN "delOptions" ELSE "delLinks"
      [] call = "delOptions"   -> "delQuestions"
      [] call = "delQuestions" -> "delLinks"
      [] call = "delLinks"     -> "delVersions"
      [] call = "delVersions"  -> "delTest"
      [] OTHER                 -> "idle"

\* a deletion that removes the questions before their options
DelSequel_QuestionsFirst(call, some) ==
    CASE call = "selVersions"  -> IF some THEN "selSubs" ELSE "delTest"
      [] call = "selSubs"      -> IF some THEN "delAnswers" ELSE "selQuestions"
      [] call = "delAnswers"   -> "delSubs"
      [] call = "delSubs"      -> "selQuestions"
      [] call = "selQuestions" -> IF some THEN "delQuestions" ELSE "delLinks"
      [] call = "delQuestions" -> "delOptions"
      [] call = "delOptions"   -> "delLinks"
      [] call = "delLinks"     -> "delVersions"
      [] call = "delVersions"  -> "delTest"
      [] OTHER                 -> "idle"

\* the store call that follows `call` when it succeeded; `some` says whether
\* the id list a select returned is non-empty (the .length > 0 tests)
DelSequel(call, some) ==
    CASE call = "selVersions"  -> IF some THEN "selSubs" ELSE "delTest"
      [] call = "selSubs"      -> IF some THEN "delAnswers" ELSE "selQuestions"
      [] call = "delAnswers"   -> "delSubs"
      [] call = "delSubs"      -> "selQuestions"
      [] call = "selQuestions" -> IF some THEN "delOptions" ELSE "delLinks"
      [] call = "delOptions"   -> "delQuestions"
      [] call = "delQuestions" -> "delLinks"
      [] call = "delLinks"     -> "delVersions"
      [] call = "delVersions"  -> "delTest"
      [] OTHER                 -> "idle"

\* issue the next store call
DelIssue(call) ==
    /\ delPc' = call
    /\ delCalls' = Append(delCalls, call)
    /\ UNCHANGED <<delTarget, delAlert, delFailedCall, delSnap>>

\* a deletion that alerts the failure and goes on with the next call
DelThrow_GoOn ==
    /\ delPc' = DelSequel(delPc, TRUE)
    /\ delAlert' = "fail"
    /\ delFailedCall' = delPc
    /\ UNCHANGED <<delTarget, versionIds, submissionIds, questionIds, delCalls, delSnap>>
    /\ UNCHANGED <<storeVars, dashVars>>

\* throw ...Error: the catch block alerts; nothing else is touched
DelThrow ==
    /\ delPc' = "idle"
    /\ delAlert' = "fail"
    /\ delFailedCall' = delPc
    /\ UNCHANGED <<delTarget, versionIds, submissionIds, questionIds, delCalls, delSnap>>
    /\ UNCHANGED <<storeVars, dashVars>>

\* the button of a rendered row; window.confirm may be declined
DeleteStart(t) ==
    /\ delPc = "idle"
    /\ DashRender = "list"
    /\ t \in Ids(dTests)
    /\ \E confirmDelete \in BOOLEAN :
         IF ~confirmDelete THEN UNCHANGED delVars
         ELSE /\ delPc' = "selVersions"
              /\ delTarget' = t
              /\ versionIds' = {}
              /\ submissionIds' = {}
              /\ questionIds' = {}
              /\ delAlert' = "none"
              /\ delCalls' = <<"selVersions">>
              /\ delFailedCall' = "none"
              /\ delSnap' = OwnedBy(t)
    /\ UNCHANGED <<storeVars, dashVars, delRest>>

\* test_versions.select('id').eq('test_id', test.id)
SelVersionsReturns ==
    /\ delPc = "selVersions"
    /\ \E failed \in BOOLEAN :
         IF failed THEN DelThrow
         ELSE LET ids == Ids(VersionsOfTest(delTarget)) IN
              /\ versionIds' = ids
              /\ DelIssue(DelSequel("selVersions", ids # {}))
              /\ UNCHANGED <<submissionIds, questionIds, storeVars, dashVars>>
    /\ UNCHANGED delRest

\* submissions.select('id').in('test_version_id', versionIds)
SelSubsReturns ==
    /\ delPc = "selSubs"
    /\ \E failed \in BOOLEAN :
         IF failed THEN DelThrow
         ELSE LET ids == Ids(SubsOfVersions(versionIds)) IN
              /\ submissionIds' = ids
              /\ DelIssue(DelSequel("selSubs", ids # {}))
              /\ UNCHANGED <<versionIds, questionIds, storeVars, dashVars>>
    /\ UNCHANGED delRest

\* questions.select('id').in('test_version_id', versionIds)
SelQuestionsReturns ==
    /\ delPc = "selQuestions"
    /\ \E failed \in BOOLEAN :
         IF failed THEN DelThrow
         ELSE LET ids == Ids(QuestionsOfVersions(versionIds)) IN
              /\ questionIds' = ids
              /\ DelIssue(DelSequel("selQuestions", ids # {}))
              /\ UNCHANGED <<versionIds, submissionIds, storeVars, dashVars>>
    /\ UNCHANGED delRest

\* a deletion whose deletes of the versions and of the test remove nothing
DelRows_ParentsKept(call) ==
    CASE call = "delAnswers"   -> AnswersOfSubs(submissionIds)
      [] call = "delSubs"      -> {x \in submissions : x.id \in submissionIds}
      [] call = "delOptions"   -> OptionsOfQuestions(questionIds)
      [] call = "delQuestions" -> {q \in questions : q.id \in questionIds}
      [] call = "delLinks"     -> LinksOfVersions(versionIds)
      [] OTHER                 -> {}

\* the rows a delete call removes
DelRows(call) ==
    CASE call = "delAnswers"   -> AnswersOfSubs(submissionIds)
      [] call = "delSubs"      -> {x \in submissions : x.id \in submissionIds}
      [] call = "delOptions"   -> OptionsOfQuestions(questionIds)
      [] call = "delQuestions" -> {q \in questions : q.id \in questionIds}
      [] call = "delLinks"     -> LinksOfVersions(versionIds)
      [] call = "delVersions"  -> {v \in versions : v.id \in versionIds}
      [] call = "delTest"      -> {t \in tests : t.id = delTarget}
      [] OTHER                 -> {}

StoreAfterDelete(call) ==
    /\ answers' = IF call = "delAnswers" THEN answers \ DelRows(call) ELSE answers
    /\ submissions' = IF call = "delSubs" THEN submissions \ DelRows(call) ELSE submissions
    /\ options' = IF call = "delOptions" THEN options \ DelRows(call) ELSE options
    /\ questions' = IF call = "delQuestions" THEN questions \ DelRows(call) ELSE questions
    /\ links' = IF call = "delLinks" THEN links \ DelRows(call) ELSE links
    /\ versions' = IF call = "delVersions" THEN versions \ DelRows(call) ELSE versions
    /\ tests' = IF call = "delTest" THEN tests \ DelRows(call) ELSE tests
    /\ UNCHANGED nextId

\* answers / submissions / options / questions / test_links / test_versions
\* .delete().in(...) returns
DeleteReturns(call) ==
    /\ delPc = call
    /\ call \in {"delAnswers", "delSubs", "delOptions", "delQuestions",
                 "delLinks", "delVersions"}
    /\ \E failed \in BOOLEAN :
         IF failed THEN DelThrow
         ELSE /\ StoreAfterDelete(call)
              /\ DelIssue(DelSequel(call, TRUE))
              /\ UNCHANGED <<versionIds, submissionIds, questionIds, dashVars>>
    /\ UNCHANGED delRest

\* tests.delete().eq('id', test.id) returns; then the local lists are
\* filtered and the success alert is shown
DelTestReturns ==
    /\ delPc = "delTest"
    /\ \E failed \in BOOLEAN :
         IF failed THEN DelThrow
         ELSE /\ StoreAfterDelete("delTest")
              /\ dTests' = {t \in dTests : t.id # delTarget}
              /\ dVersions' = {v \in dVersions : v.id \notin versionIds}
              /\ dSubs' = {x \in dSubs : x.test_version_id \notin versionIds}
              /\ delPc' = "idle"
              /\ delAlert' = "ok"
              /\ UNCHANGED <<delTarget, versionIds, submissionIds, questionIds,
                             delCalls, delFailedCall, delSnap>>
              /\ UNCHANGED <<dashPc, dashCancelled, dashLoading, dashError>>
    /\ UNCHANGED delRest

DeleteNext ==
    \/ \E t \in Ids(dTests) : DeleteStart(t)
    \/ SelVersionsReturns
    \/ SelSubsReturns
    \/ SelQuestionsReturns
    \/ \E call \in {"delAnswers", "delSubs", "delOptions", "delQuestions",
                     "delLinks", "delVersions"} : DeleteReturns(call)
    \/ DelTestReturns

SpecDelete == DeleteInit /\ [][DeleteNext]_vars

(***************************************************************************)
(* CreateTestPage: the form                                                *)
(***************************************************************************)
\* texts are sequences of characters; " " is white space
QuestionTexts == {<<" ">>, <<" ", "a">>}
OptionTexts   == {<<"a", " ">>, <<"b">>}
TitleTexts    == {<<>>, <<" ">>, <<" ", "t">>}
Kinds         == {"SINGLE", "TEXT"}

RECURSIVE TrimStart(_)
TrimStart(str) == IF str # <<>> /\ Head(str) = " " THEN TrimStart(Tail(str)) ELSE str

RECURSIVE TrimEnd(_)
TrimEnd(str) ==
    IF str # <<>> /\ str[Len(str)] = " "
    THEN TrimEnd(SubSeq(str, 1, Len(str) - 1)) ELSE str

\* crypto.randomUUID(): an id no question of the list has.  An id is only ever
\* compared with the ids of the listed questions, so the least unused one stands
\* for any fresh one.
randomUUID(qs) ==
    CHOOSE id \in 1..MaxQuestions :
        /\ \A i \in 1..Len(qs) : qs[i].id # id
        /\ \A other \in 1..(id - 1) : \E i \in 1..Len(qs) : qs[i].id = other

\* String.prototype.trim
Trim(str) == TrimEnd(TrimStart(str))

\* Array.prototype.findIndex, 1-based; 0 when no element has the id
FindIndex(qs, id) ==
    IF \E i \in 1..Len(qs) : qs[i].id = id
    THEN CHOOSE i \in 1..Len(qs) : qs[i].id = id /\ \A j \in 1..(i - 1) : qs[j].id # id
    ELSE 0

\* next.splice(index, 1)
SpliceOut(seq, i) == SubSeq(seq, 1, i - 1) \o SubSeq(seq, i + 1, Len(seq))

\* next.splice(targetIndex, 0, moved)
SpliceIn(seq, i, x) == SubSeq(seq, 1, i - 1) \o <<x>> \o SubSeq(seq, i, Len(seq))

\* handleMoveQuestion's state updater
MoveQuestion(qs, id, direction) ==
    LET index == FindIndex(qs, id)
        targetIndex == IF direction = "up" THEN index - 1 ELSE index + 1
    IN IF index = 0 THEN qs
       ELSE IF targetIndex < 1 \/ targetIndex > Len(qs) THEN qs
       ELSE SpliceIn(SpliceOut(qs, index), targetIndex, qs[index])

\* prev.filter((question) => question.id !== id)
RemoveQuestion(qs, id) == SelectSeq(qs, LAMBDA q : q.id # id)

\* handleKindChange's state updater
KindChange(qs, id, kind) ==
    [i \in 1..Len(qs) |->
        IF qs[i].id = id
        THEN [qs[i] EXCEPT !.kind = kind,
                           !.options = IF kind = "SINGLE"
                                       THEN (IF Len(qs[i].options) # 0 THEN qs[i].options
                                             ELSE <<(<<>>), (<<>>)>>)
                                       ELSE <<>>]
        ELSE qs[i]]

\* the question text input's onChange
TextChange(qs, id, value) ==
    [i \in 1..Len(qs) |-> IF qs[i].id = id THEN [qs[i] EXCEPT !.text = value] ELSE qs[i]]

\* handleOptionChange's state updater
OptionChange(qs, id, k, value) ==
    [i \in 1..Len(qs) |->
        IF qs[i].id = id THEN [qs[i] EXCEPT !.options[k] = value] ELSE qs[i]]

\* handleAddOption's state updater
AddOption(qs, id) ==
    [i \in 1..Len(qs) |->
        IF qs[i].id = id THEN [qs[i] EXCEPT !.options = Append(@, <<>>)] ELSE qs[i]]

\* handleRemoveOption's state updater
RemoveOption(qs, id, k) ==
    [i \in 1..Len(qs) |->
        IF qs[i].id = id
        THEN LET nextOptions == SpliceOut(qs[i].options, k) IN
             [qs[i] EXCEPT !.options = IF Len(nextOptions) = 0 THEN <<(<<>>)>>
                                       ELSE nextOptions]
        ELSE qs[i]]

\* number of text inputs the form shows for its questions
RECURSIVE FormSize(_)
FormSize(qs) == IF qs = <<>> THEN 0 ELSE 1 + Len(Head(qs).options) + FormSize(Tail(qs))

\* question.options.some((option) => !option.trim())
SomeOptionEmpty(opts) == \E k \in 1..Len(opts) : Trim(opts[k]) = <<>>

\* a validation that looks at every question text before any option list
RECURSIVE TextErrors(_)
TextErrors(qs) ==
    IF qs = <<>> THEN "none"
    ELSE IF Trim(Head(qs).text) = <<>> THEN "questionText"
    ELSE TextErrors(Tail(qs))

RECURSIVE OptionErrors(_)
OptionErrors(qs) ==
    IF qs = <<>> THEN "none"
    ELSE IF Head(qs).kind = "SINGLE" /\ Len(Head(qs).options) < 2 THEN "fewOptions"
    ELSE IF Head(qs).kind = "SINGLE" /\ SomeOptionEmpty(Head(qs).options) THEN "optionText"
    ELSE OptionErrors(Tail(qs))

validationError_TextsFirst(t, qs) ==
    IF Trim(t) = <<>> THEN "title"
    ELSE IF Len(qs) = 0 THEN "noQuestions"
    ELSE IF TextErrors(qs) # "none" THEN TextErrors(qs)
    ELSE OptionErrors(qs)

\* for (const question of questions) { ... } of validationError
RECURSIVE QuestionErrors(_)
QuestionErrors(qs) ==
    IF qs = <<>> THEN "none"
    ELSE LET question == Head(qs) IN
         IF Trim(question.text) = <<>> THEN "questionText"
         ELSE IF question.kind = "SINGLE" /\ Len(question.options) < 2 THEN "fewOptions"
         ELSE IF question.kind = "SINGLE" /\ SomeOptionEmpty(question.options)
              THEN "optionText"
         ELSE QuestionErrors(Tail(qs))

\* the validationError memo: the message, or "none" for null
validationError(t, qs) ==
    IF Trim(t) = <<>> THEN "title"
    ELSE IF Len(qs) = 0 THEN "noQuestions"
    ELSE QuestionErrors(qs)

\* the form is shown and no handleSubmit of it is running
Editable == /\ gState = "authorized"
            /\ pathname = "/tests/new"
            /\ subPc = "idle"
            /\ ~authRan

EditDone == /\ authAlert' = "none"
            /\ UNCHANGED <<isSubmitting, subPc, subForm, subTestId, subVersionId,
                           subInserted, authNav, authCalls, authFailedCall, authRan>>
            /\ UNCHANGED <<storeVars, pathname, authorRest>>

SetTitle(t) ==
    /\ Editable
    /\ t # title
    /\ title' = t
    /\ UNCHANGED formQs
    /\ EditDone

handleAddQuestion ==
    /\ Editable
    /\ Len(formQs) < MaxQuestions
    /\ FormSize(formQs) + 3 <= MaxFields
    /\ formQs' = Append(formQs, defaultQuestion(randomUUID(formQs)))
    /\ UNCHANGED title
    /\ EditDone

handleRemoveQuestion(id) ==
    /\ Editable
    /\ FindIndex(formQs, id) # 0
    /\ formQs' = RemoveQuestion(formQs, id)
    /\ UNCHANGED title
    /\ EditDone

handleMoveQuestion(id, direction) ==
    /\ Editable
    /\ FindIndex(formQs, id) # 0
    /\ formQs' = MoveQuestion(formQs, id, direction)
    /\ UNCHANGED title
    /\ EditDone

handleKindChange(id, kind) ==
    /\ Editable
    /\ FindIndex(formQs, id) # 0
    /\ formQs' = KindChange(formQs, id, kind)
    /\ formQs' # formQs
    /\ FormSize(formQs') <= MaxFields
    /\ UNCHANGED title
    /\ EditDone

handleTextChange(id, value) ==
    /\ Editable
    /\ FindIndex(formQs, id) # 0
    /\ formQs' = TextChange(formQs, id, value)
    /\ formQs' # formQs
    /\ UNCHANGED title
    /\ EditDone

\* the option inputs and buttons are rendered for SINGLE questions only
handleOptionChange(id, k, value) ==
    /\ Editable
    /\ FindIndex(formQs, id) # 0
    /\ formQs[FindIndex(formQs, id)].kind = "SINGLE"
    /\ k \in 1..Len(formQs[FindIndex(formQs, id)].options)
    /\ formQs' = OptionChange(formQs, id, k, value)
    /\ formQs' # formQs
    /\ UNCHANGED title
    /\ EditDone

handleAddOption(id) ==
    /\ Editable
    /\ FindIndex(formQs, id) # 0
    /\ formQs[FindIndex(formQs, id)].kind = "SINGLE"
    /\ FormSize(formQs) + 1 <= MaxFields
    /\ formQs' = AddOption(formQs, id)
    /\ UNCHANGED title
    /\ EditDone

handleRemoveOption(id, k) ==
    /\ Editable
    /\ FindIndex(formQs, id) # 0
    /\ formQs[FindIndex(formQs, id)].kind = "SINGLE"
    /\ k \in 1..Len(formQs[FindIndex(formQs, id)].options)
    /\ formQs' = RemoveOption(formQs, id, k)
    /\ UNCHANGED title
    /\ EditDone

FormNext ==
    \/ \E t \in TitleTexts : SetTitle(t)
    \/ handleAddQuestion
    \/ \E id \in 1..MaxQuestions : handleRemoveQuestion(id)
    \/ \E id \in 1..MaxQuestions, direction \in {"up", "down"} : handleMoveQuestion(id, direction)
    \/ \E id \in 1..MaxQuestions, kind \in Kinds : handleKindChange(id, kind)
    \/ \E id \in 1..MaxQuestions, value \in QuestionTexts : handleTextChange(id, value)
    \/ \E id \in 1..MaxQuestions, k \in 1..MaxFields, value \in OptionTexts :
          handleOptionChange(id, k, value)
    \/ \E id \in 1..MaxQuestions : handleAddOption(id)
    \/ \E id \in 1..MaxQuestions, k \in 1..MaxFields : handleRemoveOption(id, k)

AuthorInit ==
    /\ StoreIsOther
    /\ GuardIdle("/tests/new")
    /\ DashIdle
    /\ DelIdle
    /\ FormFresh
    /\ SubIdle
    /\ LinkIdle
    /\ PubIdle
    /\ StatsIdle(0)
    /\ MoreIdle

(***************************************************************************)
(* CreateTestPage: handleSubmit                                            *)
(***************************************************************************)
\* Math.random().toString(36).slice(2, 8)
ShortIds == {<<"x">>, <<"y">>}

\* .replace(/\s+/g, '-') on a text without white space at its ends
RECURSIVE Dashed(_)
Dashed(str) ==
    IF str = <<>> THEN <<>>
    ELSE IF Head(str) = " " THEN <<"-">> \o Dashed(TrimStart(str))
    ELSE <<Head(str)>> \o Dashed(Tail(str))

\* createSlug; every character of the titles is one the pattern keeps
createSlug(t, token) == Dashed(Trim(t)) \o <<"-">> \o token

\* a payload that numbers the questions from zero
questionPayload_ZeroBased(qs, versionId) ==
    [index \in 1..Len(qs) |->
        [test_version_id |-> versionId, text |-> Trim(qs[index].text),
         kind |-> qs[index].kind, ord |-> index - 1]]

\* questions.map((question, index) => ({ ..., ord: index + 1 })), index from 0
questionPayload(qs, versionId) ==
    [index \in 1..Len(qs) |->
        [test_version_id |-> versionId, text |-> Trim(qs[index].text),
         kind |-> qs[index].kind, ord |-> index]]

\* positions of the pairs kept by the filter of singleQuestionPairs
singleQuestionPairs(qs, inserted) ==
    {i \in 1..Len(qs) : qs[i].kind = "SINGLE" /\ i <= Len(inserted)}

\* place of a pair's first option in the flattened optionPayload, from 0
RECURSIVE FlatStart(_, _, _)
FlatStart(qs, inserted, i) ==
    IF i <= 1 THEN 0
    ELSE FlatStart(qs, inserted, i - 1)
         + (IF (i - 1) \in singleQuestionPairs(qs, inserted)
            THEN Len(qs[i - 1].options) ELSE 0)

\* a payload that leaves out the last option of every question
optionPayload_DropLast(qs, inserted) ==
    UNION {{[at |-> FlatStart(qs, inserted, i) + k, question_id |-> inserted[i],
             text |-> Trim(qs[i].options[k]), ord |-> k]
            : k \in 1..(Len(qs[i].options) - 1)}
           : i \in singleQuestionPairs(qs, inserted)}

\* singleQuestionPairs.flatMap(...): the rows with their place in the batch
optionPayload(qs, inserted) ==
    UNION {{[at |-> FlatStart(qs, inserted, i) + k, question_id |-> inserted[i],
             text |-> Trim(qs[i].options[k]), ord |-> k]
            : k \in 1..Len(qs[i].options)}
           : i \in singleQuestionPairs(qs, inserted)}

\* a handler that goes on after a failed test_versions insert
AuthSequel_IgnoreVersionError(call, failed, singles) ==
    IF failed /\ call # "insVersion" THEN "catch"
    ELSE CASE call = "insTest"      -> "insVersion"
           [] call = "insVersion"   -> "insQuestions"
           [] call = "insQuestions" -> IF singles THEN "insOptions" ELSE "push"
           [] call = "insOptions"   -> "push"

\* what handleSubmit does when a store call returns: the next store call,
\* "catch" for the catch block, "push" for router.push('/dashboard')
AuthSequel(call, failed, singles) ==
    IF failed THEN "catch"
    ELSE CASE call = "insTest"      -> "insVersion"
           [] call = "insVersion"   -> "insQuestions"
           [] call = "insQuestions" -> IF singles THEN "insOptions" ELSE "push"
           [] call = "insOptions"   -> "push"

\* the rest of handleSubmit after a store call returned; finally runs on
\* both ways out
AuthGoOn(call, failed, singles) ==
    LET sequel == AuthSequel(call, failed, singles) IN
    /\ authFailedCall' = IF failed THEN call ELSE authFailedCall
    /\ IF sequel = "catch"
       THEN /\ authAlert' = "error"
            /\ isSubmitting' = FALSE
            /\ subPc' = "idle"
            /\ UNCHANGED <<authNav, authCalls, pathname>>
       ELSE IF sequel = "push"
       THEN /\ authNav' = TRUE
            /\ pathname' = "/dashboard"
            /\ isSubmitting' = FALSE
            /\ subPc' = "idle"
            /\ UNCHANGED <<authAlert, authCalls>>
       ELSE /\ subPc' = sequel
            /\ authCalls' = Append(authCalls, sequel)
            /\ UNCHANGED <<authAlert, authNav, isSubmitting, pathname>>

\* handleSubmit up to its first await
SubmitStart ==
    /\ Editable
    /\ IF validationError(title, formQs) # "none"
       THEN /\ authAlert' = validationError(title, formQs)
            /\ UNCHANGED <<isSubmitting, subPc, subForm, authCalls, authRan>>
       ELSE /\ \E token \in ShortIds :
                 subForm' = [title |-> title, questions |-> formQs,
                             slug |-> createSlug(title, token)]
            /\ isSubmitting' = TRUE
            /\ subPc' = "insTest"
            /\ authCalls' = <<"insTest">>
            /\ authRan' = TRUE
            /\ UNCHANGED authAlert
    /\ UNCHANGED <<subTestId, subVersionId, subInserted, authNav, authFailedCall>>
    /\ UNCHANGED <<formVars, storeVars, pathname, authorRest>>

InsTestReturns ==
    /\ subPc = "insTest"
    /\ \E failed \in BOOLEAN :
         /\ IF failed
            THEN UNCHANGED <<tests, nextId, subTestId>>
            ELSE /\ tests' = tests \cup {[id |-> nextId, slug |-> subForm.slug,
                                          title |-> Trim(subForm.title),
                                          status |-> "draft"]}
                 /\ nextId' = nextId + 1
                 /\ subTestId' = nextId
         /\ AuthGoOn("insTest", failed, FALSE)
    /\ UNCHANGED <<versions, questions, options, links, submissions, answers>>
    /\ UNCHANGED <<subForm, subVersionId, subInserted, authRan, formVars, authorRest>>

InsVersionReturns ==
    /\ subPc = "insVersion"
    /\ \E failed \in BOOLEAN :
         /\ IF failed
            THEN UNCHANGED <<versions, nextId, subVersionId>>
            ELSE /\ versions' = versions \cup {[id |-> nextId, test_id |-> subTestId,
                                                version |-> 1, published_at |-> NoId]}
                 /\ nextId' = nextId + 1
                 /\ subVersionId' = nextId
         /\ AuthGoOn("insVersion", failed, FALSE)
    /\ UNCHANGED <<tests, questions, options, links, submissions, answers>>
    /\ UNCHANGED <<subForm, subTestId, subInserted, authRan, formVars, authorRest>>

\* the rows come back in the order of the payload
InsQuestionsReturns ==
    /\ subPc = "insQuestions"
    /\ \E failed \in BOOLEAN :
         LET payload == questionPayload(subForm.questions, subVersionId)
             insertedQuestions == [i \in 1..Len(payload) |-> nextId + i - 1]
         IN
         /\ IF failed
            THEN UNCHANGED <<questions, nextId, subInserted>>
            ELSE /\ questions' = questions \cup
                        {[id |-> insertedQuestions[i],
                          test_version_id |-> payload[i].test_version_id,
                          text |-> payload[i].text, kind |-> payload[i].kind,
                          ord |-> payload[i].ord] : i \in 1..Len(payload)}
                 /\ nextId' = nextId + Len(payload)
                 /\ subInserted' = insertedQuestions
         /\ AuthGoOn("insQuestions", failed,
                     singleQuestionPairs(subForm.questions, insertedQuestions) # {})
    /\ UNCHANGED <<tests, versions, options, links, submissions, answers>>
    /\ UNCHANGED <<subForm, subTestId, subVersionId, authRan, formVars, authorRest>>

InsOptionsReturns ==
    /\ subPc = "insOptions"
    /\ \E failed \in BOOLEAN :
         LET payload == optionPayload(subForm.questions, subInserted) IN
         /\ IF failed
            THEN UNCHANGED <<options, nextId>>
            ELSE /\ options' = options \cup
                        {[id |-> nextId + row.at - 1, question_id |-> row.question_id,
                          text |-> row.text, ord |-> row.ord] : row \in payload}
                 /\ nextId' = nextId + Cardinality(payload)
         /\ AuthGoOn("insOptions", failed, FALSE)
    /\ UNCHANGED <<tests, versions, questions, links, submissions, answers>>
    /\ UNCHANGED <<subForm, subTestId, subVersionId, subInserted, authRan,
                   formVars, authorRest>>

SubmitNext ==
    \/ SubmitStart
    \/ InsTestReturns
    \/ InsVersionReturns
    \/ InsQuestionsReturns
    \/ InsOptionsReturns

(***************************************************************************)
(* TestLinkPage: load() and toggleActive.  One administrator; a load is    *)
(* started only after the one before it has returned.                      *)
(***************************************************************************)
LinkPath == "/tests/[slug]/link"

\* an ordering by version number alone
Latest_ByVersion(vs) == {v \in vs : \A w \in vs : v.version >= w.version}

\* .order('published_at', desc, nullsFirst: false).order('version', desc)
\* .limit(1): null is NoId, below every time stamp
Latest(vs) ==
    {v \in vs : \A w \in vs :
        \/ v.published_at > w.published_at
        \/ v.published_at = w.published_at /\ v.version >= w.version}

\* a lookup that sees the active links only
ExistingLinks_ActiveOnly(v) == {l \in links : l.test_version_id = v /\ l.is_active}

\* .from('test_links').eq('test_version_id', versionData.id)
ExistingLinks(v) == {l \in links : l.test_version_id = v}

\* select('id, public_id, is_active')
LinkRow(l) == [id |-> l.id, public_id |-> l.public_id, is_active |-> l.is_active]

LoadLocalsDropped ==
    /\ testData' = NoId
    /\ versionData' = NoId
    /\ lpFound' = 0
    /\ ensuredLink' = NoLink

\* catch and finally of load()
LinkCatch ==
    /\ linkPc' = "error"
    /\ lpError' = IF lpCancelled THEN lpError ELSE TRUE
    /\ LoadLocalsDropped
    /\ UNCHANGED <<storeVars, link, linkIssued>>

\* the admin opens the share view of a test from the list: the effect runs
\* load() up to its first await
OpenLinkPage(s) ==
    /\ gState = "authorized"
    /\ pathname = "/dashboard"
    /\ linkPc \in {"none", "done", "error"}
    /\ loads < MaxLoads
    /\ s \in {t.slug : t \in tests}
    /\ pathname' = LinkPath
    /\ slug' = s
    /\ linkPc' = "selTest"
    /\ loads' = loads + 1
    /\ link' = NoLink
    /\ lpError' = FALSE
    /\ lpCancelled' = FALSE
    /\ UNCHANGED <<testData, versionData, lpFound, ensuredLink, linkIssued>>
    /\ UNCHANGED <<storeVars, linkRest>>

LinkTestReturns ==
    /\ linkPc = "selTest"
    /\ \E failed \in BOOLEAN :
         LET rows == {t \in tests : t.slug = slug} IN
         IF failed \/ Cardinality(rows) # 1
         THEN LinkCatch
         ELSE /\ testData' = (CHOOSE t \in rows : TRUE).id
              /\ linkPc' = "selVersion"
              /\ UNCHANGED <<storeVars, versionData, lpFound, ensuredLink, link, lpError,
                             linkIssued>>
    /\ UNCHANGED <<pathname, slug, lpCancelled, loads, linkRest>>

LinkVersionReturns ==
    /\ linkPc = "selVersion"
    /\ \E failed \in BOOLEAN :
         LET rows == {v \in versions : v.test_id = testData} IN
         IF failed \/ rows = {}
         THEN LinkCatch
         ELSE /\ \E v \in Latest(rows) : versionData' = v.id
              /\ linkPc' = "selLink"
              /\ UNCHANGED <<storeVars, testData, lpFound, ensuredLink, link, lpError,
                             linkIssued>>
    /\ UNCHANGED <<pathname, slug, lpCancelled, loads, linkRest>>

\* maybeSingle: no row is null without an error, several rows are null with
\* the error PGRST116, which load() lets pass
\* a lookup whose every error is thrown
LookupThrows_AnyError(failed, found) == failed \/ found > 1

\* if (linkError && linkError.code !== 'PGRST116') throw linkError:
\* maybeSingle() reports more than one row as the error PGRST116, with no
\* data; `failed` stands for any other error
LookupThrows(failed, found) == failed

LinkLookupReturns ==
    /\ linkPc = "selLink"
    /\ \E failed \in BOOLEAN :
         LET rows == ExistingLinks(versionData) IN
         IF LookupThrows(failed, Cardinality(rows))
         THEN LinkCatch
         ELSE /\ lpFound' = Cardinality(rows)
              /\ IF Cardinality(rows) = 1
                 THEN /\ ensuredLink' = LinkRow(CHOOSE l \in rows : TRUE)
                      /\ linkPc' = "qr"
                 ELSE /\ ensuredLink' = NoLink
                      /\ linkPc' = "insLink"
              /\ UNCHANGED <<storeVars, testData, versionData, link, lpError, linkIssued>>
    /\ UNCHANGED <<pathname, slug, lpCancelled, loads, linkRest>>

\* an insert that the store turns down when the version has a link
CreatedLink_OnePerVersion(v) ==
    IF ExistingLinks(v) = {} THEN {[id |-> nextId, test_version_id |-> v,
                                    public_id |-> nextId, is_active |-> TRUE]}
    ELSE {}

\* .insert([{ test_version_id: versionData.id, is_active: true }]): the store
\* fills in id and public_id
CreatedLink(v) ==
    {[id |-> nextId, test_version_id |-> v, public_id |-> nextId, is_active |-> TRUE]}

LinkInsertReturns ==
    /\ linkPc = "insLink"
    /\ \E failed \in BOOLEAN :
         IF failed
         THEN LinkCatch
         ELSE /\ links' = links \cup CreatedLink(versionData)
              /\ nextId' = nextId + 1
              /\ ensuredLink' = [id |-> nextId, public_id |-> nextId, is_active |-> TRUE]
              /\ linkPc' = "qr"
              /\ UNCHANGED <<tests, versions, questions, options, submissions, answers>>
              /\ UNCHANGED <<testData, versionData, lpFound, link, lpError, linkIssued>>
    /\ UNCHANGED <<pathname, slug, lpCancelled, loads, linkRest>>

\* QRCode.toDataURL returns; if (cancelled) return; setLink(ensuredLink)
LinkQrReturns ==
    /\ linkPc = "qr"
    /\ \E failed \in BOOLEAN :
         IF failed
         THEN LinkCatch
         ELSE /\ linkIssued' = Append(linkIssued,
                                      [version |-> versionData, id |-> ensuredLink.id,
                                       public_id |-> ensuredLink.public_id,
                                       is_active |-> ensuredLink.is_active,
                                       found |-> lpFound])
              /\ link' = IF lpCancelled THEN link ELSE ensuredLink
              /\ linkPc' = "done"
              /\ LoadLocalsDropped
              /\ UNCHANGED <<storeVars, lpError>>
    /\ UNCHANGED <<pathname, slug, lpCancelled, loads, linkRest>>

\* the admin goes back to the list: the view unmounts, the effect's cleanup
\* runs, a load in flight goes on
BackToDashboard ==
    /\ pathname = LinkPath
    /\ pathname' = "/dashboard"
    /\ lpCancelled' = TRUE
    /\ link' = NoLink
    /\ lpError' = FALSE
    /\ UNCHANGED <<linkPc, slug, testData, versionData, lpFound, ensuredLink, loads,
                   linkIssued>>
    /\ UNCHANGED <<storeVars, linkRest>>

\* an update that reaches every link of the link's version
UpdateIsActive_WholeVersion(id, nextValue) ==
    {IF \E k \in links : k.id = id /\ k.test_version_id = l.test_version_id
     THEN [l EXCEPT !.is_active = nextValue] ELSE l : l \in links}

\* .from('test_links').update({ is_active: nextValue }).eq('id', link.id)
UpdateIsActive(id, nextValue) ==
    {IF l.id = id THEN [l EXCEPT !.is_active = nextValue] ELSE l : l \in links}

\* toggleActive with the update's return
toggleActive ==
    /\ pathname = LinkPath
    /\ link # NoLink
    /\ \E failed \in BOOLEAN :
         IF failed
         THEN UNCHANGED <<storeVars, link>>
         ELSE /\ links' = UpdateIsActive(link.id, ~link.is_active)
              /\ link' = [link EXCEPT !.is_active = ~link.is_active]
              /\ UNCHANGED <<tests, versions, questions, options, submissions, answers,
                             nextId>>
    /\ UNCHANGED <<linkPc, slug, testData, versionData, lpFound, ensuredLink, lpError,
                   lpCancelled, loads, linkIssued>>
    /\ UNCHANGED <<pathname, linkRest>>

LinkLoadNext ==
    \/ \E s \in {t.slug : t \in tests} : OpenLinkPage(s)
    \/ LinkTestReturns
    \/ LinkVersionReturns
    \/ LinkLookupReturns
    \/ LinkInsertReturns
    \/ LinkQrReturns

(***************************************************************************)
(* TestLinkPage: load() in the browser of a second administrator, who      *)
(* opens the share view once.  What that view shows is not followed.       *)
(***************************************************************************)
PeerCatch ==
    /\ peerPc' = "error"
    /\ peerTest' = NoId
    /\ peerVersion' = NoId
    /\ UNCHANGED storeVars

PeerOpen(s) ==
    /\ peerPc = "none"
    /\ peerPc' = "selTest"
    /\ peerSlug' = s
    /\ UNCHANGED <<peerTest, peerVersion, storeVars, peerRest>>

PeerTestReturns ==
    /\ peerPc = "selTest"
    /\ \E failed \in BOOLEAN :
         LET rows == {t \in tests : t.slug = peerSlug} IN
         IF failed \/ Cardinality(rows) # 1
         THEN PeerCatch
         ELSE /\ peerTest' = (CHOOSE t \in rows : TRUE).id
              /\ peerPc' = "selVersion"
              /\ UNCHANGED <<peerVersion, storeVars>>
    /\ UNCHANGED <<peerSlug, peerRest>>

PeerVersionReturns ==
    /\ peerPc = "selVersion"
    /\ \E failed \in BOOLEAN :
         LET rows == {v \in versions : v.test_id = peerTest} IN
         IF failed \/ rows = {}
         THEN PeerCatch
         ELSE /\ \E v \in Latest(rows) : peerVersion' = v.id
              /\ peerPc' = "selLink"
              /\ UNCHANGED <<peerTest, storeVars>>
    /\ UNCHANGED <<peerSlug, peerRest>>

PeerLookupReturns ==
    /\ peerPc = "selLink"
    /\ \E failed \in BOOLEAN :
         IF LookupThrows(failed, Cardinality(ExistingLinks(peerVersion)))
         THEN PeerCatch
         ELSE /\ peerPc' = IF Cardinality(ExistingLinks(peerVersion)) = 1 THEN "qr"
                           ELSE "insLink"
              /\ UNCHANGED <<peerTest, peerVersion, storeVars>>
    /\ UNCHANGED <<peerSlug, peerRest>>

PeerInsertReturns ==
    /\ peerPc = "insLink"
    /\ \E failed \in BOOLEAN :
         IF failed
         THEN PeerCatch
         ELSE /\ links' = links \cup CreatedLink(peerVersion)
              /\ nextId' = nextId + 1
              /\ peerPc' = "qr"
              /\ UNCHANGED <<tests, versions, questions, options, submissions, answers>>
              /\ UNCHANGED <<peerTest, peerVersion>>
    /\ UNCHANGED <<peerSlug, peerRest>>

PeerQrReturns ==
    /\ peerPc = "qr"
    /\ \E failed \in BOOLEAN :
         IF failed
         THEN PeerCatch
         ELSE /\ peerPc' = "done"
              /\ peerTest' = NoId
              /\ peerVersion' = NoId
              /\ UNCHANGED storeVars
    /\ UNCHANGED <<peerSlug, peerRest>>

PeerNext ==
    \/ \E s \in {t.slug : t \in tests} : PeerOpen(s)
    \/ PeerTestReturns
    \/ PeerVersionReturns
    \/ PeerLookupReturns
    \/ PeerInsertReturns
    \/ PeerQrReturns

RaceNext ==
    \/ LinkLoadNext
    \/ PeerNext

(***************************************************************************)
(* LoginPage.handleSubmit.  The form is rendered at /login; `filled` says  *)
(* whether email.trim() and password are both non-empty.                   *)
(***************************************************************************)
\* a handler that leaves the flag set when the sign-in fails
LoginSettled_StuckOnError(failed) == failed

\* finally { setIsSubmitting(false) }: the flag after signInWithPassword
\* has returned, whichever way
LoginSettled(failed) == FALSE

\* handleSubmit up to its first await
LoginSubmitStart ==
    /\ pathname = "/login"
    /\ loginPc = "idle"
    /\ \E filled \in BOOLEAN :
         IF ~filled
         THEN /\ loginError' = TRUE
              /\ UNCHANGED <<loginPc, loginSubmitting>>
         ELSE /\ loginError' = FALSE
              /\ loginSubmitting' = TRUE
              /\ loginPc' = "signIn"
    /\ UNCHANGED <<authSession, pathname, loginRest>>

\* await supabase.auth.signInWithPassword(...) returns
SignInReturns ==
    /\ loginPc = "signIn"
    /\ \E failed \in BOOLEAN :
         /\ IF failed
            THEN /\ loginError' = TRUE
                 /\ UNCHANGED <<authSession, pathname>>
            ELSE /\ \E u \in Users : authSession' = u
                 /\ pathname' = "/dashboard"
                 /\ UNCHANGED loginError
         /\ loginSubmitting' = LoginSettled(failed)
    /\ loginPc' = "idle"
    /\ UNCHANGED loginRest

(***************************************************************************)
(* PublicTestPage: loadData().  One participant, who has the address from  *)
(* a share view.                                                           *)
(***************************************************************************)
\* a result in any order
SortedByOrd_AnyOrder(rows) ==
    {s \in [1..Cardinality(rows) -> rows] :
        \A i, j \in 1..Cardinality(rows) : i < j => s[i] # s[j]}

\* .order('ord', { ascending: true }): the rows by ord; rows of equal ord come
\* in either order
SortedByOrd(rows) ==
    {s \in [1..Cardinality(rows) -> rows] :
        \A i, j \in 1..Cardinality(rows) : i < j => s[i] # s[j] /\ s[i].ord <= s[j].ord}

\* select('id, kind, text, ord')
QuestionRow(q) == [id |-> q.id, kind |-> q.kind, text |-> q.text, ord |-> q.ord]

\* typedQuestions.filter((question) => question.kind === 'SINGLE').map(id)
singleQuestionIds(typed) == {typed[i].id : i \in {j \in 1..Len(typed) : typed[j].kind = "SINGLE"}}

\* normalizedQuestions, optionsData being the options in the order returned
normalizedQuestions(typed, optionsData) ==
    [i \in 1..Len(typed) |->
        [id |-> typed[i].id, kind |-> typed[i].kind, text |-> typed[i].text,
         ord |-> typed[i].ord,
         options |-> IF typed[i].kind # "SINGLE" THEN <<>>
                     ELSE SelectSeq(optionsData, LAMBDA o : o.question_id = typed[i].id)]]

\* catch and finally of loadData()
PubCatch ==
    /\ pubPc' = "error"
    /\ loadError' = IF isMounted THEN TRUE ELSE loadError
    /\ testVersionRaw' = NoVersion
    /\ testRow' = <<>>
    /\ typedQuestions' = <<>>
    /\ UNCHANGED <<pQuestions, testVersionId, testTitle, answersState>>

\* the end of the try block
PubShow(typed, optionsData) ==
    /\ pubPc' = "done"
    /\ IF isMounted
       THEN /\ pQuestions' = normalizedQuestions(typed, optionsData)
            /\ testVersionId' = testVersionRaw.id
            /\ testTitle' = testRow
            /\ answersState' = [q \in {typed[i].id : i \in 1..Len(typed)} |->
                                   IF q \in singleQuestionIds(typed) THEN NoId ELSE <<>>]
       ELSE UNCHANGED <<pQuestions, testVersionId, testTitle, answersState>>
    /\ testVersionRaw' = NoVersion
    /\ testRow' = <<>>
    /\ typedQuestions' = <<>>
    /\ UNCHANGED loadError

OpenPublicPage(pid) ==
    /\ pubPc = "none"
    /\ publicId' = pid
    /\ pubPc' = "selLink"
    /\ UNCHANGED <<testVersionRaw, typedQuestions, pQuestions, testVersionId, loadError,
                   isMounted, testRow, testTitle, answersState>>
    /\ UNCHANGED pubRest

\* a lookup that leaves the is_active filter out
LinkByPublicId_AnyActivity(pid) ==
    {<<l, v>> \in links \X versions : l.public_id = pid /\ v.id = l.test_version_id}

\* test_links with test_versions!inner, .eq('public_id', pid).eq('is_active', true)
LinkByPublicId(pid) ==
    {<<l, v>> \in links \X versions :
        l.public_id = pid /\ l.is_active /\ v.id = l.test_version_id}

\* the link query returns: .single() fails unless there is exactly one row
PubLinkReturns ==
    /\ pubPc = "selLink"
    /\ \E failed \in BOOLEAN :
         LET rows == LinkByPublicId(publicId) IN
         IF failed \/ Cardinality(rows) # 1
         THEN PubCatch
         ELSE /\ testVersionRaw' = LET v == (CHOOSE r \in rows : TRUE)[2]
                                   IN [id |-> v.id, test_id |-> v.test_id]
              /\ pubPc' = "selTest"
              /\ UNCHANGED <<typedQuestions, pQuestions, testVersionId, loadError, testRow,
                             testTitle, answersState>>
    /\ UNCHANGED <<publicId, isMounted, pubRest>>

PubTestReturns ==
    /\ pubPc = "selTest"
    /\ \E failed \in BOOLEAN :
         LET rows == {t \in tests : t.id = testVersionRaw.test_id} IN
         IF failed \/ Cardinality(rows) # 1
         THEN PubCatch
         ELSE /\ pubPc' = "selQuestions"
              /\ testRow' = (CHOOSE t \in rows : TRUE).title
              /\ UNCHANGED <<testVersionRaw, typedQuestions, pQuestions, testVersionId,
                             loadError, testTitle, answersState>>
    /\ UNCHANGED <<publicId, isMounted, pubRest>>

PubQuestionsReturns ==
    /\ pubPc = "selQuestions"
    /\ \E failed \in BOOLEAN :
         IF failed
         THEN PubCatch
         ELSE \E questionsData \in
                    SortedByOrd({QuestionRow(q) : q \in
                                   {r \in questions : r.test_version_id = testVersionRaw.id}}) :
                 IF singleQuestionIds(questionsData) # {}
                 THEN /\ typedQuestions' = questionsData
                      /\ pubPc' = "selOptions"
                      /\ UNCHANGED <<testVersionRaw, pQuestions, testVersionId, loadError,
                                     testRow, testTitle, answersState>>
                 ELSE PubShow(questionsData, <<>>)
    /\ UNCHANGED <<publicId, isMounted, pubRest>>

PubOptionsReturns ==
    /\ pubPc = "selOptions"
    /\ \E failed \in BOOLEAN :
         IF failed
         THEN PubCatch
         ELSE \E optionsData \in
                    SortedByOrd({o \in options :
                                   o.question_id \in singleQuestionIds(typedQuestions)}) :
                 PubShow(typedQuestions, optionsData)
    /\ UNCHANGED <<publicId, isMounted, pubRest>>

\* the participant leaves while loadData() is in flight
PubLeave ==
    /\ pubPc \in {"selLink", "selTest", "selQuestions", "selOptions"}
    /\ isMounted
    /\ isMounted' = FALSE
    /\ UNCHANGED <<pubPc, publicId, testVersionRaw, typedQuestions, pQuestions,
                   testVersionId, loadError, testRow, testTitle, answersState>>
    /\ UNCHANGED pubRest

\* the participant has the address from a share view
PubLoadNext ==
    \/ \E pid \in {linkIssued[i].public_id : i \in 1..Len(linkIssued)} : OpenPublicPage(pid)
    \/ PubLinkReturns
    \/ PubTestReturns
    \/ PubQuestionsReturns
    \/ PubOptionsReturns
    \/ PubLeave

\* one authoring visit, then one opening of the share view and one participant
AuthorNext ==
    \/ FormNext
    \/ SubmitNext
    \/ LinkLoadNext
    \/ PubLoadNext

SpecAuthor == AuthorInit /\ [][AuthorNext]_vars

(***************************************************************************)
(* Tests authored in a row: after the navigation to the list the           *)
(* administrator opens the authoring view again, which mounts afresh.  The *)
(* questions are TEXT ones.                                                *)
(***************************************************************************)
OpenCreatePage ==
    /\ gState = "authorized"
    /\ pathname = "/dashboard"
    /\ subPc = "idle"
    /\ authNav
    /\ Cardinality(tests \ OtherTests) < MaxTests
    /\ pathname' = "/tests/new"
    /\ title' = <<>>
    /\ formQs' = <<defaultQuestion(1)>>
    /\ isSubmitting' = FALSE
    /\ subPc' = "idle"
    /\ subForm' = NoForm
    /\ subTestId' = NoId
    /\ subVersionId' = NoId
    /\ subInserted' = <<>>
    /\ authAlert' = "none"
    /\ authNav' = FALSE
    /\ authCalls' = <<>>
    /\ authFailedCall' = "none"
    /\ authRan' = FALSE
    /\ UNCHANGED <<storeVars, authorRest>>

SlugNext ==
    \/ \E t \in TitleTexts : SetTitle(t)
    \/ \E id \in 1..MaxQuestions : handleKindChange(id, "TEXT")
    \/ \E id \in 1..MaxQuestions, value \in QuestionTexts : handleTextChange(id, value)
    \/ SubmitStart
    \/ InsTestReturns
    \/ InsVersionReturns
    \/ InsQuestionsReturns
    \/ OpenCreatePage

SpecSlug == AuthorInit /\ [][SlugNext]_vars

(***************************************************************************)
(* PublicTestPage: the form and handleSubmit.  The required and disabled   *)
(* attributes of the markup are hints to the browser; handleSubmit is      *)
(* followed on every form state.                                           *)
(***************************************************************************)
ParticipantTexts == {<<" ">>, <<" ", "p">>}
AnswerTexts      == {<<" ">>, <<"a", " ">>}

\* the form is rendered: not loading, no loadError, a testVersionId
FormShown ==
    /\ pubPc = "done"
    /\ isMounted
    /\ ~loadError
    /\ testVersionId # NoId

\* a default that takes the option shown last
firstOption_Last(opts) == opts[Len(opts)]

\* [...question.options].sort((a, b) => a.ord - b.ord)[0]; the sort is stable
firstOption(opts) ==
    opts[CHOOSE k \in 1..Len(opts) :
            /\ \A j \in 1..Len(opts) : opts[k].ord <= opts[j].ord
            /\ \A j \in 1..(k - 1) : opts[j].ord > opts[k].ord]

\* ensuredAnswers after questions.forEach(...)
Normalized(qs, ans) ==
    [q \in DOMAIN ans |->
        IF \E i \in 1..Len(qs) :
              /\ qs[i].id = q
              /\ qs[i].kind = "SINGLE"
              /\ ans[q] = NoId
              /\ qs[i].options # <<>>
        THEN firstOption((CHOOSE r \in {qs[i] : i \in 1..Len(qs)} : r.id = q).options).id
        ELSE ans[q]]

missingSingleChoice(qs, ens) ==
    \E i \in 1..Len(qs) : qs[i].kind = "SINGLE" /\ ens[qs[i].id] = NoId

missingTextAnswer(qs, ens) ==
    \E i \in 1..Len(qs) : qs[i].kind = "TEXT" /\ Trim(ens[qs[i].id]) = <<>>

\* a validation that looks at the text answers first
ansError_TextFirst(p, qs, ens) ==
    IF Trim(p) = <<>> THEN "participant"
    ELSE IF missingTextAnswer(qs, ens) THEN "text"
    ELSE IF missingSingleChoice(qs, ens) THEN "choice"
    ELSE "none"

\* the alert handleSubmit returns with before its try block, or "none"
ansError(p, qs, ens) ==
    IF Trim(p) = <<>> THEN "participant"
    ELSE IF missingSingleChoice(qs, ens) THEN "choice"
    ELSE IF missingTextAnswer(qs, ens) THEN "text"
    ELSE "none"

\* a payload that sends the text of a TEXT answer in both columns' place
answersPayload_BothColumns(qs, ens, sid) ==
    [i \in 1..Len(qs) |->
        [submission_id |-> sid, question_id |-> qs[i].id,
         option_id |-> IF qs[i].kind = "SINGLE" THEN ens[qs[i].id] ELSE NoId,
         free_text |-> IF qs[i].kind = "SINGLE" THEN <<"a">> ELSE Trim(ens[qs[i].id])]]

\* answersPayload
answersPayload(qs, ens, sid) ==
    [i \in 1..Len(qs) |->
        IF qs[i].kind = "SINGLE"
        THEN [submission_id |-> sid, question_id |-> qs[i].id,
              option_id |-> ens[qs[i].id], free_text |-> NullText]
        ELSE [submission_id |-> sid, question_id |-> qs[i].id,
              option_id |-> NoId, free_text |-> Trim(ens[qs[i].id])]]

AnsEditable ==
    /\ FormShown
    /\ ansPc = "idle"
    /\ ~ansNav

AnsEditDone ==
    /\ ansAlert' = "none"
    /\ UNCHANGED <<pubSubmitting, ansPc, ensuredAnswers, submissionId, ansNav, ansCalls,
                   ansRuns, recorded>>
    /\ UNCHANGED <<pubPc, publicId, testVersionRaw, typedQuestions, pQuestions, testVersionId,
                   loadError, isMounted, testRow, testTitle>>
    /\ UNCHANGED <<storeVars, ansRest>>

setParticipant(p) ==
    /\ AnsEditable
    /\ p # participant
    /\ participant' = p
    /\ UNCHANGED answersState
    /\ AnsEditDone

\* onChange of a radio input (single) or of a textarea
setAnswersState(q, value, single) ==
    /\ AnsEditable
    /\ \E i \in 1..Len(pQuestions) :
          /\ pQuestions[i].id = q
          /\ (pQuestions[i].kind = "SINGLE") = single
          /\ single => \E k \in 1..Len(pQuestions[i].options) :
                           pQuestions[i].options[k].id = value
    /\ answersState[q] # value
    /\ answersState' = [answersState EXCEPT ![q] = value]
    /\ UNCHANGED participant
    /\ AnsEditDone

\* a handler that redirects however the inserts ended
AnsDone_AlwaysRedirect(alert, nav) ==
    /\ ansAlert' = alert
    /\ ansNav' = TRUE
    /\ pubSubmitting' = FALSE
    /\ ansPc' = "idle"
    /\ ensuredAnswers' = <<>>
    /\ submissionId' = NoId

\* catch / finally of the public handleSubmit
AnsDone(alert, nav) ==
    /\ ansAlert' = alert
    /\ ansNav' = nav
    /\ pubSubmitting' = FALSE
    /\ ansPc' = "idle"
    /\ ensuredAnswers' = <<>>
    /\ submissionId' = NoId

\* handleSubmit of the public form up to its first await
PubSubmitStart ==
    /\ AnsEditable
    /\ ansRuns < MaxSubmits
    /\ LET ens == IF Trim(participant) = <<>> THEN answersState
                  ELSE Normalized(pQuestions, answersState)
           err == ansError(participant, pQuestions, ens)
       IN /\ answersState' = ens
          /\ IF err # "none"
             THEN /\ ansAlert' = err
                  /\ UNCHANGED <<pubSubmitting, ansPc, ensuredAnswers, ansCalls, ansRuns>>
             ELSE /\ pubSubmitting' = TRUE
                  /\ ansPc' = "insSubmission"
                  /\ ensuredAnswers' = ens
                  /\ ansCalls' = Append(ansCalls, "insSubmission")
                  /\ ansRuns' = ansRuns + 1
                  /\ ansAlert' = "none"
    /\ UNCHANGED <<participant, submissionId, ansNav, recorded>>
    /\ UNCHANGED <<pubPc, publicId, testVersionRaw, typedQuestions, pQuestions, testVersionId,
                   loadError, isMounted, testRow, testTitle>>
    /\ UNCHANGED <<storeVars, ansRest>>

\* a submission that is turned down when its link is not active any more
SubmissionThrows_InactiveLink(failed) ==
    failed \/ ~\E l \in links : l.public_id = publicId /\ l.is_active

\* if (submissionError || !submissionData) throw ...: the insert names the
\* version alone, no link is read
SubmissionThrows(failed) == failed

\* created_at is the store's clock, which the model ticks with every row id
InsSubmissionReturns ==
    /\ ansPc = "insSubmission"
    /\ \E failed \in BOOLEAN :
         IF SubmissionThrows(failed)
         THEN /\ AnsDone("error", FALSE)
              /\ UNCHANGED <<submissions, nextId, recorded, ansCalls>>
         ELSE /\ submissions' = submissions \cup
                     {[id |-> nextId, test_version_id |-> testVersionId,
                       participant |-> Trim(participant), created_at |-> nextId]}
              /\ nextId' = nextId + 1
              /\ submissionId' = nextId
              /\ recorded' = recorded \cup {nextId}
              /\ ansPc' = "insAnswers"
              /\ ansCalls' = Append(ansCalls, "insAnswers")
              /\ UNCHANGED <<ansAlert, ansNav, pubSubmitting, ensuredAnswers>>
    /\ UNCHANGED <<tests, versions, questions, options, links, answers>>
    /\ UNCHANGED <<participant, ansRuns, pubVars, ansRest>>

InsAnswersReturns ==
    /\ ansPc = "insAnswers"
    /\ \E failed \in BOOLEAN :
         LET payload == answersPayload(pQuestions, ensuredAnswers, submissionId) IN
         IF failed
         THEN /\ AnsDone("answers", FALSE)
              /\ UNCHANGED <<answers, nextId>>
         ELSE /\ answers' = answers \cup
                     {[id |-> nextId + i - 1, submission_id |-> payload[i].submission_id,
                       question_id |-> payload[i].question_id,
                       option_id |-> payload[i].option_id,
                       free_text |-> payload[i].free_text] : i \in 1..Len(payload)}
              /\ nextId' = nextId + Len(payload)
              /\ AnsDone(ansAlert, TRUE)
    /\ UNCHANGED <<tests, versions, questions, options, links, submissions>>
    /\ UNCHANGED <<participant, ansCalls, ansRuns, recorded, pubVars, ansRest>>

(***************************************************************************)
(* Store contents for the public view: the test of the deletion with one   *)
(* version; a question without options is SINGLE (what a failed options    *)
(* insert leaves) or TEXT; the options' ords run against their ids; the    *)
(* links are active or not.                                                *)
(***************************************************************************)
PublicInit ==
    /\ \E nQ \in 0..MaxRows, nO \in 0..MaxRows, nL \in 0..MaxRows :
       \E act \in [1..nL -> BOOLEAN], bare \in [1..nQ -> Kinds] :
          /\ tests = TargetTests \cup OtherTests
          /\ versions = TargetVersions(1) \cup OtherVersions
          /\ questions = {[q EXCEPT !.kind = IF \E o \in TargetOptions(1, nQ, nO) :
                                                    o.question_id = q.id
                                                THEN "SINGLE" ELSE bare[q.id - 20]]
                          : q \in TargetQuestions(1, nQ)} \cup OtherQuestions
          /\ options = {[o EXCEPT !.ord = nO + 31 - o.id] : o \in TargetOptions(1, nQ, nO)}
                          \cup OtherOptions
          /\ links = {[l EXCEPT !.is_active = act[l.id - 40]] : l \in TargetLinks(1, nL)}
                        \cup OtherLinks
          /\ submissions = OtherSubmissions
          /\ answers = OtherAnswers
    /\ nextId = 100
    /\ GuardIdle("/dashboard")
    /\ DashIdle
    /\ DelIdle
    /\ FormFresh
    /\ SubIdle
    /\ LinkIdle
    /\ PubIdle
    /\ StatsIdle(0)
    /\ MoreIdle

\* one participant; nextId is an address no link has
PublicNext ==
    \/ \E pid \in {l.public_id : l \in links} \cup {nextId} : OpenPublicPage(pid)
    \/ PubLinkReturns
    \/ PubTestReturns
    \/ PubQuestionsReturns
    \/ PubOptionsReturns
    \/ PubLeave
    \/ \E p \in ParticipantTexts : setParticipant(p)
    \/ \E q \in Ids(questions), value \in Ids(options) : setAnswersState(q, value, TRUE)
    \/ \E q \in Ids(questions), value \in AnswerTexts : setAnswersState(q, value, FALSE)
    \/ PubSubmitStart
    \/ InsSubmissionReturns
    \/ InsAnswersReturns

SpecPublic == PublicInit /\ [][PublicNext]_vars

\* the guarded dashboard and, in another browser, the public form, each left
\* while its requests are in flight
UnmountNext ==
    \/ \E i \in 1..Len(checks) : GetSessionReturns(i)
    \/ \E i \in 1..Len(checks) : GetProfileReturns(i)
    \/ \E i \in 1..Len(checks) : SignOutReturns(i)
    \/ \E p \in Paths : Navigate(p)
    \/ Unmount
    \/ DashLoadStart
    \/ DashTestsReturn
    \/ DashVersionsReturn
    \/ DashSubsReturn
    \/ \E pid \in {l.public_id : l \in links} : OpenPublicPage(pid)
    \/ PubLinkReturns
    \/ PubTestReturns
    \/ PubQuestionsReturns
    \/ PubOptionsReturns
    \/ PubLeave

SpecUnmount == GuardInit /\ [][UnmountNext]_vars

(***************************************************************************)
(* TestStatsPage: load().  The administrator opens the view once, from the *)
(* list.                                                                   *)
(***************************************************************************)
StatsPath == "/tests/[slug]/stats"

\* .order('created_at', { ascending: false }); rows of equal created_at come
\* in either order
SortedByCreatedDesc(rows) ==
    {s \in [1..Cardinality(rows) -> rows] :
        \A i, j \in 1..Cardinality(rows) :
            i < j => s[i] # s[j] /\ s[i].created_at >= s[j].created_at}

\* select('id, created_at, participant')
SubmissionRow(x) == [id |-> x.id, created_at |-> x.created_at, participant |-> x.participant]

\* catch and finally of the statistics load()
StatsCatch ==
    /\ stPc' = "error"
    /\ stError' = IF stCancelled THEN stError ELSE TRUE
    /\ stLoad' = NoStatsLoad
    /\ UNCHANGED <<stTest, stVersion, stQuestions, stOptions, stSubmissions, stAnswers>>

\* the end of the try block; the answers keep their ids, which tell equal
\* rows apart
StatsShow(subs, ans) ==
    /\ stPc' = "done"
    /\ IF stCancelled
       THEN UNCHANGED <<stTest, stVersion, stQuestions, stOptions, stSubmissions, stAnswers>>
       ELSE /\ stTest' = stLoad.testData
            /\ stVersion' = stLoad.versionData
            /\ stQuestions' = stLoad.questionsData
            /\ stOptions' = stLoad.optionsData
            /\ stSubmissions' = subs
            /\ stAnswers' = ans
    /\ stLoad' = NoStatsLoad
    /\ UNCHANGED stError

StatsLoadFrame ==
    UNCHANGED <<stSlug, stCancelled, dateFrom, dateTo, participantQuery, utcOffset, csv,
                pathname, storeVars, statsRest>>

OpenStatsPage(s) ==
    /\ gState = "authorized"
    /\ pathname = "/dashboard"
    /\ stPc = "none"
    /\ pathname' = StatsPath
    /\ stSlug' = s
    /\ stPc' = "selTest"
    /\ UNCHANGED <<stCancelled, stLoad, stError, stTest, stVersion, stQuestions, stOptions,
                   stSubmissions, stAnswers, dateFrom, dateTo, participantQuery, utcOffset,
                   csv>>
    /\ UNCHANGED <<storeVars, statsRest>>

StatsTestReturns ==
    /\ stPc = "selTest"
    /\ \E failed \in BOOLEAN :
         LET rows == {t \in tests : t.slug = stSlug} IN
         IF failed \/ Cardinality(rows) # 1
         THEN StatsCatch
         ELSE /\ stLoad' = [stLoad EXCEPT !.testData = (CHOOSE t \in rows : TRUE).id]
              /\ stPc' = "selVersion"
              /\ UNCHANGED <<stError, stTest, stVersion, stQuestions, stOptions,
                             stSubmissions, stAnswers>>
    /\ StatsLoadFrame

StatsVersionReturns ==
    /\ stPc = "selVersion"
    /\ \E failed \in BOOLEAN :
         LET rows == {v \in versions : v.test_id = stLoad.testData} IN
         IF failed \/ rows = {}
         THEN StatsCatch
         ELSE /\ \E v \in Latest(rows) : stLoad' = [stLoad EXCEPT !.versionData = v.id]
              /\ stPc' = "selQuestions"
              /\ UNCHANGED <<stError, stTest, stVersion, stQuestions, stOptions,
                             stSubmissions, stAnswers>>
    /\ StatsLoadFrame

StatsQuestionsReturns ==
    /\ stPc = "selQuestions"
    /\ \E failed \in BOOLEAN :
         IF failed
         THEN StatsCatch
         ELSE /\ \E typed \in SortedByOrd({QuestionRow(q) : q \in
                        {r \in questions : r.test_version_id = stLoad.versionData}}) :
                    /\ stLoad' = [stLoad EXCEPT !.questionsData = typed]
                    /\ stPc' = IF singleQuestionIds(typed) = {} THEN "selSubs"
                               ELSE "selOptions"
              /\ UNCHANGED <<stError, stTest, stVersion, stQuestions, stOptions,
                             stSubmissions, stAnswers>>
    /\ StatsLoadFrame

StatsOptionsReturns ==
    /\ stPc = "selOptions"
    /\ \E failed \in BOOLEAN :
         IF failed
         THEN StatsCatch
         ELSE /\ \E os \in SortedByOrd({o \in options : o.question_id \in
                                           singleQuestionIds(stLoad.questionsData)}) :
                    stLoad' = [stLoad EXCEPT !.optionsData = os]
              /\ stPc' = "selSubs"
              /\ UNCHANGED <<stError, stTest, stVersion, stQuestions, stOptions,
                             stSubmissions, stAnswers>>
    /\ StatsLoadFrame

StatsSubsReturns ==
    /\ stPc = "selSubs"
    /\ \E failed \in BOOLEAN :
         IF failed
         THEN StatsCatch
         ELSE \E subs \in SortedByCreatedDesc({SubmissionRow(x) : x \in
                    {r \in submissions : r.test_version_id = stLoad.versionData}}) :
                 IF subs = <<>>
                 THEN StatsShow(subs, {})
                 ELSE /\ stLoad' = [stLoad EXCEPT !.submissionsData = subs]
                      /\ stPc' = "selAnswers"
                      /\ UNCHANGED <<stError, stTest, stVersion, stQuestions, stOptions,
                                     stSubmissions, stAnswers>>
    /\ StatsLoadFrame

StatsAnswersReturns ==
    /\ stPc = "selAnswers"
    /\ \E failed \in BOOLEAN :
         IF failed
         THEN StatsCatch
         ELSE LET subs == stLoad.submissionsData IN
              StatsShow(subs, {a \in answers :
                                  a.submission_id \in {subs[i].id : i \in 1..Len(subs)}})
    /\ StatsLoadFrame

\* the administrator goes back to the list: the effect's cleanup
StatsLeave ==
    /\ pathname = StatsPath
    /\ pathname' = "/dashboard"
    /\ stCancelled' = TRUE
    /\ UNCHANGED <<stPc, stSlug, stLoad, stError, stTest, stVersion, stQuestions, stOptions,
                   stSubmissions, stAnswers, dateFrom, dateTo, participantQuery, utcOffset,
                   csv>>
    /\ UNCHANGED <<storeVars, statsRest>>

StatsLoadNext ==
    \/ \E s \in {t.slug : t \in tests} : OpenStatsPage(s)
    \/ StatsTestReturns
    \/ StatsVersionReturns
    \/ StatsQuestionsReturns
    \/ StatsOptionsReturns
    \/ StatsSubsReturns
    \/ StatsAnswersReturns
    \/ StatsLeave

(***************************************************************************)
(* TestStatsPage: filters, charts and export.  An instant is a number of   *)
(* ticks since the epoch, DayLen ticks to the day; a date-only string is   *)
(* the number of its day.                                                  *)
(***************************************************************************)
DayLen == 4

\* new Date('YYYY-MM-DD'): a date-only string is read as UTC midnight
UtcMidnight(day) == day * DayLen

\* date.setHours(0, 0, 0, 0): the start of the date's day in local time
setHoursStart(t, off) == ((t + off) \div DayLen) * DayLen - off

\* date.setHours(23, 59, 59, 999): the last tick of the date's day in local time
setHoursEnd(t, off) == ((t + off) \div DayLen) * DayLen + (DayLen - 1) - off

\* String.prototype.toLowerCase on the letters of the model
toLowerCase(str) ==
    [i \in 1..Len(str) |-> IF str[i] = "P" THEN "p" ELSE IF str[i] = "J" THEN "j" ELSE str[i]]

includes(str, term) ==
    \E k \in 0..(Len(str) - Len(term)) : SubSeq(str, k + 1, k + Len(term)) = term

\* filteredSubmissions
filteredSubmissions(subs, from, to, query, off) ==
    SelectSeq(subs, LAMBDA x :
        /\ from # NoId => ~(x.created_at < setHoursStart(UtcMidnight(from), off))
        /\ to # NoId => ~(x.created_at > setHoursEnd(UtcMidnight(to), off))
        /\ Trim(query) # <<>> =>
              includes(toLowerCase(x.participant), toLowerCase(Trim(query))))

Filtered == filteredSubmissions(stSubmissions, dateFrom, dateTo, participantQuery, utcOffset)

\* Array.prototype.sort((a, b) => a.ord - b.ord), which is stable
RECURSIVE StableByOrd(_)
StableByOrd(rows) ==
    IF rows = <<>> THEN <<>>
    ELSE LET front == StableByOrd(SubSeq(rows, 1, Len(rows) - 1))
             last  == rows[Len(rows)]
             k     == Cardinality({i \in 1..Len(front) : front[i].ord <= last.ord})
         IN SubSeq(front, 1, k) \o <<last>> \o SubSeq(front, k + 1, Len(front))

questionOptions(opts, qid) == StableByOrd(SelectSeq(opts, LAMBDA o : o.question_id = qid))

\* labels and data of the bar chart of every SINGLE question, the answers of
\* the submissions in submissionIdSet counted
chartsData(qs, opts, ans, submissionIdSet) ==
    LET singles == SelectSeq(qs, LAMBDA q : q.kind = "SINGLE")
    IN [i \in 1..Len(singles) |->
          LET qo == questionOptions(opts, singles[i].id) IN
          [question |-> singles[i].id,
           labels |-> [k \in 1..Len(qo) |-> qo[k].text],
           data |-> [k \in 1..Len(qo) |->
                       Cardinality({a \in ans :
                          /\ a.submission_id \in submissionIdSet
                          /\ a.question_id = singles[i].id
                          /\ a.option_id # NoId
                          /\ qo[k].id = a.option_id
                          /\ \A j \in 1..(k - 1) : qo[j].id # a.option_id})]]]

\* charts that count the answers of every loaded submission
charts_Unfiltered(qs, opts, ans, filtered) ==
    chartsData(qs, opts, ans, {a.submission_id : a \in ans})

\* charts
charts(qs, opts, ans, filtered) ==
    chartsData(qs, opts, ans, {filtered[i].id : i \in 1..Len(filtered)})

Digit(d) == <<"0", "1", "2", "3", "4", "5", "6", "7", "8", "9">>[d + 1]

\* String(value) of a number
RECURSIVE StringOf(_)
StringOf(n) == IF n < 10 THEN <<Digit(n)>> ELSE Append(StringOf(n \div 10), Digit(n % 10))

\* a field written as it is
replaceQuotes_Kept(str) == str

\* value.replace(/"/g, '""')
RECURSIVE replaceQuotes(_)
replaceQuotes(str) ==
    IF str = <<>> THEN <<>>
    ELSE (IF Head(str) = "\"" THEN <<"\"", "\"">> ELSE <<Head(str)>>)
            \o replaceQuotes(Tail(str))

\* parts.join(sep)
RECURSIVE Join(_, _)
Join(parts, sep) ==
    IF parts = <<>> THEN <<>>
    ELSE IF Len(parts) = 1 THEN parts[1]
    ELSE parts[1] \o <<sep>> \o Join(Tail(parts), sep)

\* the header; a column name is one element, a run of letters without quotes
CsvHeader == << <<"submission_id">>, <<"participant">>, <<"created_at">> >>

\* const csv = [header, ...rows].map(...).join('\n')
csvContent(filtered) ==
    LET rows == [i \in 1..Len(filtered) |->
                    <<StringOf(filtered[i].id), filtered[i].participant,
                      StringOf(filtered[i].created_at)>>]
        line(row) == Join([k \in 1..Len(row) |->
                             <<"\"">> \o replaceQuotes(row[k]) \o <<"\"">>], ",")
    IN Join([i \in 1..(Len(rows) + 1) |->
                IF i = 1 THEN line(CsvHeader) ELSE line(rows[i - 1])], "\n")

\* the view is past its guards: authorized, loaded, no error, a test and a version
StatsShown ==
    /\ pathname = StatsPath
    /\ gState = "authorized"
    /\ stPc = "done"
    /\ ~stCancelled
    /\ ~stError
    /\ stTest # NoId
    /\ stVersion # NoId

StatsViewFrame ==
    UNCHANGED <<stPc, stSlug, stCancelled, stLoad, stError, stTest, stVersion, stQuestions,
                stOptions, stSubmissions, stAnswers, utcOffset, pathname, storeVars,
                statsRest>>

FilterDays == {2}
QueryTexts == {<<>>, <<" ", "p">>}

setDateFrom(day) ==
    /\ StatsShown
    /\ day # dateFrom
    /\ dateFrom' = day
    /\ UNCHANGED <<dateTo, participantQuery, csv>>
    /\ StatsViewFrame

setDateTo(day) ==
    /\ StatsShown
    /\ day # dateTo
    /\ dateTo' = day
    /\ UNCHANGED <<dateFrom, participantQuery, csv>>
    /\ StatsViewFrame

setParticipantQuery(txt) ==
    /\ StatsShown
    /\ txt # participantQuery
    /\ participantQuery' = txt
    /\ UNCHANGED <<dateFrom, dateTo, csv>>
    /\ StatsViewFrame

handleResetFilters ==
    /\ StatsShown
    /\ dateFrom' = NoId
    /\ dateTo' = NoId
    /\ participantQuery' = <<>>
    /\ UNCHANGED csv
    /\ StatsViewFrame

handleExportCsv ==
    /\ StatsShown
    /\ csv' = IF Filtered = <<>> \/ stTest = NoId \/ stVersion = NoId
              THEN csv ELSE csvContent(Filtered)
    /\ UNCHANGED <<dateFrom, dateTo, participantQuery>>
    /\ StatsViewFrame

(***************************************************************************)
(* Store contents for the statistics view: the test of the deletion with   *)
(* one version; the options' ords run against their ids and their texts    *)
(* tell them apart; the submissions were created one tick after the other  *)
(* around the days of the filter, each with an answer to every question.   *)
(***************************************************************************)
Names == << <<"P", "a">>, <<"J", "\"", "n">>, <<"p">>, <<"a", "p">> >>
Offsets == {0 - 1, 0, 1}
Instants == {UtcMidnight(d) + k : d \in FilterDays, k \in (0 - 2)..(DayLen + 1)}

StatsInit ==
    /\ \E nQ \in 0..MaxRows, nO \in 0..MaxRows, nS \in 0..MaxRows, t0 \in Instants :
       LET qs == TargetKinds(TargetQuestions(1, nQ), TargetOptions(1, nQ, nO))
           os == {[o EXCEPT !.ord = nO + 31 - o.id, !.text = StringOf(o.id)]
                     : o \in TargetOptions(1, nQ, nO)}
           pick(m, q) == LET mine == {o.id : o \in {r \in os : r.question_id = q}}
                         IN IF mine = {} THEN NoId
                            ELSE CHOOSE o \in mine :
                                   Cardinality({r \in mine : r < o}) = (m - 1) % Cardinality(mine)
       IN /\ tests = TargetTests \cup OtherTests
          /\ versions = TargetVersions(1) \cup OtherVersions
          /\ questions = qs \cup OtherQuestions
          /\ options = os \cup OtherOptions
          /\ links = OtherLinks
          /\ submissions = {[id |-> 50 + m, test_version_id |-> 11, participant |-> Names[m],
                             created_at |-> t0 + m - 1] : m \in 1..nS} \cup OtherSubmissions
          /\ answers = {[id |-> 60 + (m - 1) * nQ + (q.id - 20), submission_id |-> 50 + m,
                         question_id |-> q.id, option_id |-> pick(m, q.id),
                         free_text |-> IF q.kind = "TEXT" THEN <<"a">> ELSE NullText]
                           : m \in 1..nS, q \in qs} \cup OtherAnswers
    /\ nextId = 100
    /\ GuardIdle("/dashboard")
    /\ DashLoaded
    /\ DelIdle
    /\ FormFresh
    /\ SubIdle
    /\ LinkIdle
    /\ PubIdle
    /\ \E off \in Offsets : StatsIdle(off)
    /\ MoreIdle

StatsNext ==
    \/ StatsLoadNext
    \/ \E day \in FilterDays \cup {NoId} : setDateFrom(day)
    \/ \E day \in FilterDays \cup {NoId} : setDateTo(day)
    \/ \E txt \in QueryTexts : setParticipantQuery(txt)
    \/ handleResetFilters
    \/ handleExportCsv

SpecStats == StatsInit /\ [][StatsNext]_vars

(***************************************************************************)
(* The share view and the statistics view over one store.                  *)
(***************************************************************************)
VersionNext ==
    \/ LinkLoadNext
    \/ BackToDashboard
    \/ StatsLoadNext

(***************************************************************************)
(* Store contents for the share view: the test of the deletion with its    *)
(* versions published or not, one question with two options per version.   *)
(***************************************************************************)
Stamps == 0..2

LinkInit ==
    /\ \E nV \in 0..MaxVersions, nL \in 0..MaxRows :
       \E pub \in [1..nV -> Stamps] :
          /\ tests = TargetTests \cup OtherTests
          /\ versions = {[v EXCEPT !.published_at = pub[v.version]] : v \in TargetVersions(nV)}
                           \cup OtherVersions
          /\ questions = TargetQuestions(nV, nV) \cup OtherQuestions
          /\ options = TargetOptions(nV, nV, 2 * nV) \cup OtherOptions
          /\ links = TargetLinks(nV, nL) \cup OtherLinks
          /\ submissions = OtherSubmissions
          /\ answers = OtherAnswers
    /\ nextId = 100
    /\ GuardIdle("/dashboard")
    /\ DashLoaded
    /\ DelIdle
    /\ FormFresh
    /\ SubIdle
    /\ LinkIdle
    /\ PubIdle
    /\ StatsIdle(0)
    /\ MoreIdle

LinkNext ==
    \/ LinkLoadNext
    \/ BackToDashboard
    \/ toggleActive

SpecLink == LinkInit /\ [][LinkNext]_vars

\* the store of the share view before any link of the test was issued
VersionInit ==
    /\ LinkInit
    /\ links = OtherLinks

SpecVersion == VersionInit /\ [][VersionNext]_vars

SpecRace == VersionInit /\ [][RaceNext]_vars

\* the administrator's share view with its toggle, and a participant who
\* has the address from it and sends the defaults
ToggleInit ==
    /\ LinkInit
    /\ Cardinality(versions \ OtherVersions) = 1

ToggleNext ==
    \/ LinkLoadNext
    \/ toggleActive
    \/ PubLoadNext
    \/ \E p \in ParticipantTexts : setParticipant(p)
    \/ PubSubmitStart
    \/ InsSubmissionReturns
    \/ InsAnswersReturns

SpecToggle == ToggleInit /\ [][ToggleNext]_vars

(***************************************************************************)
(* Claims about cascade deletion                                           *)
(***************************************************************************)
\* every reference of every stored row points at a stored row
FKIntact ==
    /\ \A v \in versions : v.test_id \in Ids(tests)
    /\ \A q \in questions : q.test_version_id \in Ids(versions)
    /\ \A o \in options : o.question_id \in Ids(questions)
    /\ \A l \in links : l.test_version_id \in Ids(versions)
    /\ \A x \in submissions : x.test_version_id \in Ids(versions)
    /\ \A a \in answers : /\ a.submission_id \in Ids(submissions)
                          /\ a.question_id \in Ids(questions)
                          /\ a.option_id # NoId => a.option_id \in Ids(options)

\* in this run every call a was issued before every call b
IssuedBefore(a, b) ==
    \A i, j \in 1..Len(delCalls) : (delCalls[i] = a /\ delCalls[j] = b) => i < j

Issued(call) == \E i \in 1..Len(delCalls) : delCalls[i] = call

\* C3: in every intermediate state of handleDeleteTest no remaining row
\* references a deleted row, and the deletes are issued in dependency
\* order: Answers before Submissions, Options before Questions, Submissions,
\* Questions and TestLinks before TestVersions, TestVersions before the Test.
C3_DeletionKeepsForeignKeys ==
    /\ FKIntact
    /\ IssuedBefore("delAnswers", "delSubs")
    /\ IssuedBefore("delOptions", "delQuestions")
    /\ IssuedBefore("delSubs", "delVersions")
    /\ IssuedBefore("delQuestions", "delVersions")
    /\ IssuedBefore("delLinks", "delVersions")
    /\ IssuedBefore("delVersions", "delTest")

\* half way: answers, submissions, options and questions are gone, the
\* versions are still there
C3_Witness ==
    /\ delPc = "delVersions"
    /\ delSnap.answers # {} /\ delSnap.options # {} /\ delSnap.links # {}
    /\ questions = OtherQuestions
    /\ Cardinality(versions) > 1

\* C4: a cascade deletion in which no store call fails reports success, and
\* after a reported success the store holds no TestVersion, Question, Option,
\* TestLink, Submission or Answer of that Test and no Test row, whatever the
\* numbers of rows were (zero included); steps whose id set is empty are
\* skipped and raise no error.
C4_DeletionRemovesEverything ==
    (delPc = "idle" /\ delAlert # "none") =>
       /\ (delFailedCall = "none") <=> (delAlert = "ok")
       /\ delAlert = "ok" =>
            /\ delTarget \notin Ids(tests)
            /\ VersionsOfTest(delTarget) = {}
            /\ Ids(versions) \cap delSnap.versions = {}
            /\ Ids(questions) \cap delSnap.questions = {}
            /\ Ids(options) \cap delSnap.options = {}
            /\ Ids(links) \cap delSnap.links = {}
            /\ Ids(submissions) \cap delSnap.submissions = {}
            /\ Ids(answers) \cap delSnap.answers = {}
            /\ delSnap.versions = {} => delCalls = <<"selVersions", "delTest">>
            /\ delSnap.submissions = {} => ~Issued("delAnswers") /\ ~Issued("delSubs")
            /\ delSnap.questions = {} => ~Issued("delOptions") /\ ~Issued("delQuestions")

\* a test with versions, questions, options and links but no submission was
\* deleted: the submission steps were skipped
C4_Witness ==
    /\ delPc = "idle" /\ delAlert = "ok" /\ delTarget = 1
    /\ Cardinality(delSnap.versions) > 1
    /\ delSnap.submissions = {}
    /\ delSnap.questions # {} /\ delSnap.options # {} /\ delSnap.links # {}
    /\ ~Issued("delSubs")

(***************************************************************************)
(* Claims about the access guard                                           *)
(***************************************************************************)
\* C1: isAuthorized is true only after a check that resolved a session and
\* whose profile fetch, by that session's user id, found is_admin true; and
\* while isAuthorized is false the dashboard renders only the neutral
\* placeholder and has started no data load.
C1_AuthorizedOnlyAfterAdminCheck ==
    /\ gState = "authorized" =>
          \E i \in 1..Len(checks) :
             /\ checks[i].result = "authorized"
             /\ checks[i].session \in Users
             /\ checks[i].truth = "admin"
    /\ gState # "authorized" => (DashRender = "placeholder" /\ dashPc = "none")

\* an admin was let in and the dashboard shows its list
C1_Witness ==
    /\ gState = "authorized"
    /\ \E i \in 1..Len(checks) : checks[i].result = "authorized"
    /\ dashPc = "done"
    /\ DashRender = "list"

\* C2: a check that finds no session, or a session whose profile flag is
\* false or missing (a failed or empty fetch included), never sets
\* authorized and redirects to /login, except that no redirect is issued
\* when the current path already is /login.
C2_UnauthorizedRedirectsUnlessAtLogin ==
    \A i \in 1..Len(checks) :
       (checks[i].pc = "done"
          /\ (checks[i].session = NoSession \/ checks[i].truth # "admin")) =>
             /\ checks[i].result = "unauthorized"
             /\ checks[i].path # "/login" => \E r \in redirects : r.check = i
             /\ \A r \in redirects :
                   r.check = i => ~(checks[i].path = "/login" /\ r.at = "/login")

(***************************************************************************)
(* Claims about authoring                                                  *)
(***************************************************************************)
\* white space only, stated without Trim
Blank(str) == \A k \in 1..Len(str) : str[k] = " "

TextRuleBroken(q)    == Blank(q.text)
OptionsRuleBroken(q) == q.kind = "SINGLE" /\ Len(q.options) < 2
OptionRuleBroken(q)  == q.kind = "SINGLE" /\ \E k \in 1..Len(q.options) : Blank(q.options[k])
RuleBroken(q)        == TextRuleBroken(q) \/ OptionsRuleBroken(q) \/ OptionRuleBroken(q)

\* the one message the rules' order asks for, "none" for a form that keeps them
FirstViolation(t, qs) ==
    IF Blank(t) THEN "title"
    ELSE IF Len(qs) = 0 THEN "noQuestions"
    ELSE IF \A i \in 1..Len(qs) : ~RuleBroken(qs[i]) THEN "none"
    ELSE LET first == CHOOSE i \in 1..Len(qs) :
                          RuleBroken(qs[i]) /\ \A j \in 1..(i - 1) : ~RuleBroken(qs[j])
         IN IF TextRuleBroken(qs[first]) THEN "questionText"
            ELSE IF OptionsRuleBroken(qs[first]) THEN "fewOptions"
            ELSE "optionText"

ValidationMessages == {"title", "noQuestions", "questionText", "fewOptions", "optionText"}

AuthoredNothing ==
    /\ authCalls = <<>>
    /\ tests = OtherTests
    /\ versions = OtherVersions
    /\ questions = OtherQuestions
    /\ options = OtherOptions

\* C5: a handleSubmit on a form that breaks a rule issues no insert and
\* alerts exactly the message of the first broken rule, in the order title,
\* empty list, then per question text, option count, option text; a store call
\* of handleSubmit is only ever issued for a form that keeps every rule, so no
\* SINGLE question with fewer than 2 options or a blank option is in a payload.
C5_ValidationPrecedesWrites ==
    /\ authAlert \in ValidationMessages =>
          /\ authAlert = FirstViolation(title, formQs)
          /\ subPc = "idle"
          /\ AuthoredNothing
    /\ FirstViolation(title, formQs) # "none" => AuthoredNothing
    /\ authCalls # <<>> =>
          /\ FirstViolation(subForm.title, subForm.questions) = "none"
          /\ authAlert \notin ValidationMessages
          /\ \A i \in 1..Len(subForm.questions) :
                subForm.questions[i].kind = "SINGLE" =>
                   /\ Len(subForm.questions[i].options) >= 2
                   /\ \A k \in 1..Len(subForm.questions[i].options) :
                         Trim(subForm.questions[i].options[k]) # <<>>

\* the second question is the first to break a rule, and it breaks the
\* option rules only; the first one is fine
C5_Witness ==
    /\ Len(formQs) = 2
    /\ ~RuleBroken(formQs[1])
    /\ formQs[2].kind = "SINGLE"
    /\ ~TextRuleBroken(formQs[2])
    /\ authAlert = "optionText"

Swapped(qs, i, j) ==
    [k \in 1..Len(qs) |-> IF k = i THEN qs[j] ELSE IF k = j THEN qs[i] ELSE qs[k]]

PositionOf(qs, id) == {i \in 1..Len(qs) : qs[i].id = id}

MoveAsSpecified(qs, id, direction) ==
    LET r == MoveQuestion(qs, id, direction) IN
    IF PositionOf(qs, id) = {} THEN r = qs
    ELSE \A i \in PositionOf(qs, id) :
            IF direction = "up"
            THEN (IF i = 1 THEN r = qs ELSE r = Swapped(qs, i, i - 1))
            ELSE (IF i = Len(qs) THEN r = qs ELSE r = Swapped(qs, i, i + 1))

\* C6: whatever adds, removes and moves built the list, a move up of the
\* first question, a move down of the last one and a move of an id not in the
\* list leave it as it is, every other move swaps the question with its
\* neighbour; and the ord written for a question is its 1-based position in
\* the submitted list, the ord written for an option its 1-based position in
\* its question's option list.
C6_OrdIsPosition ==
    /\ \A id \in 0..(MaxQuestions + 1), direction \in {"up", "down"} :
          MoveAsSpecified(formQs, id, direction)
    /\ \A i \in 1..Len(subInserted) :
          \E row \in questions :
             /\ row.id = subInserted[i]
             /\ row.ord = i
             /\ row.kind = subForm.questions[i].kind
             /\ row.text = Trim(subForm.questions[i].text)
    /\ authNav =>
          \A i \in 1..Len(subInserted) :
             subForm.questions[i].kind = "SINGLE" =>
                \A k \in 1..Len(subForm.questions[i].options) :
                   \E row \in options :
                      /\ row.question_id = subInserted[i]
                      /\ row.ord = k
                      /\ row.text = Trim(subForm.questions[i].options[k])

\* a list whose questions were moved out of the order they were added in
\* has been written, options included
C6_Witness ==
    /\ authNav
    /\ Len(subForm.questions) = 2
    /\ subForm.questions[1].id > subForm.questions[2].id
    /\ subForm.questions[1].kind = "SINGLE"
    /\ \E row \in options : row.question_id = subInserted[1] /\ row.ord = 2

AllCalls == <<"insTest", "insVersion", "insQuestions", "insOptions">>

HasSingles(qs) == \E i \in 1..Len(qs) : qs[i].kind = "SINGLE"

TestWritten ==
    \E row \in tests : row.id = subTestId /\ row.status = "draft"

VersionWritten ==
    \E row \in versions : row.id = subVersionId /\ row.test_id = subTestId /\ row.version = 1

QuestionsWritten ==
    /\ Len(subInserted) = Len(subForm.questions)
    /\ \A i \in 1..Len(subInserted) :
          \E row \in questions : row.id = subInserted[i] /\ row.test_version_id = subVersionId

OptionsWritten ==
    \A i \in 1..Len(subInserted) :
       subForm.questions[i].kind = "SINGLE" =>
          \E row \in options : row.question_id = subInserted[i]

\* C7: the inserts are issued in the order tests (status draft),
\* test_versions (version 1), questions, options; after a failed insert no
\* further insert is issued, the error is alerted, the page does not navigate
\* and what the earlier inserts wrote stays in the store; the page navigates
\* to the list only after every insert succeeded.
C7_WriteOrderAndAbort ==
    /\ Len(authCalls) <= 4
    /\ authCalls = SubSeq(AllCalls, 1, Len(authCalls))
    /\ Len(authCalls) >= 2 => TestWritten
    /\ Len(authCalls) >= 3 => VersionWritten
    /\ Len(authCalls) >= 4 => QuestionsWritten
    /\ authFailedCall # "none" =>
          /\ subPc = "idle"
          /\ authCalls[Len(authCalls)] = authFailedCall
          /\ authAlert = "error"
          /\ ~authNav
          /\ ~isSubmitting
    /\ authAlert = "error" => authFailedCall # "none"
    /\ authNav =>
          /\ authFailedCall = "none"
          /\ subPc = "idle"
          /\ TestWritten /\ VersionWritten /\ QuestionsWritten /\ OptionsWritten
          /\ authCalls = IF HasSingles(subForm.questions) THEN AllCalls
                         ELSE SubSeq(AllCalls, 1, 3)

\* the questions insert failed: the test and its version stay, nothing else
\* was tried
C7_Witness ==
    /\ authFailedCall = "insQuestions"
    /\ TestWritten
    /\ VersionWritten
    /\ authCalls = SubSeq(AllCalls, 1, 3)
    /\ subPc = "idle"

OptionsOf(q) == {o \in options : o.question_id = q.id}

AuthoredTestLoaded ==
    /\ authNav
    /\ pubPc = "done"
    /\ isMounted
    /\ testVersionId = subVersionId

OptionTextsShown(q) == [k \in 1..Len(q.options) |-> q.options[k].text]

\* C9 as stated: the loaded questions are the authored ones, in order, each
\* with the kind and the text that was typed and, for SINGLE, the option texts
\* that were typed, in order; TEXT questions with none.
C9_RoundTripAsTyped ==
    AuthoredTestLoaded =>
       /\ Len(pQuestions) = Len(subForm.questions)
       /\ \A i \in 1..Len(pQuestions) :
             /\ pQuestions[i].kind = subForm.questions[i].kind
             /\ pQuestions[i].text = subForm.questions[i].text
             /\ OptionTextsShown(pQuestions[i]) = subForm.questions[i].options

\* C9: a test authored with N questions and loaded through its active link
\* shows exactly N questions in the authored order, each with the authored
\* kind, with the authored text trimmed of surrounding white space, and a
\* SINGLE question with exactly its authored options, trimmed, in the
\* authored order, a TEXT question with none.
C9_RoundTripTrimmed ==
    AuthoredTestLoaded =>
       /\ Len(pQuestions) = Len(subForm.questions)
       /\ \A i \in 1..Len(pQuestions) :
             /\ pQuestions[i].kind = subForm.questions[i].kind
             /\ pQuestions[i].text = Trim(subForm.questions[i].text)
             /\ OptionTextsShown(pQuestions[i]) =
                   [k \in 1..Len(subForm.questions[i].options) |->
                       Trim(subForm.questions[i].options[k])]
             /\ pQuestions[i].kind = "TEXT" => pQuestions[i].options = <<>>

\* a SINGLE question with two different options and a TEXT question came back
C9_Witness ==
    /\ AuthoredTestLoaded
    /\ Len(pQuestions) = 2
    /\ \E i, j \in 1..2 :
          /\ pQuestions[i].kind = "SINGLE"
          /\ Len(pQuestions[i].options) = 2
          /\ pQuestions[i].options[1].text # pQuestions[i].options[2].text
          /\ pQuestions[j].kind = "TEXT"

\* C10: when a load() of the share view finds no test_links row for the
\* resolved version, it creates one with is_active = true, and from then on
\* the version has exactly that one row: every later load() of the same
\* version, started after the one before it returned, ensures the same id and
\* public_id and inserts nothing.
C10_LinkIssuanceIdempotent ==
    \A i \in 1..Len(linkIssued) :
       linkIssued[i].found = 0 =>
          /\ linkIssued[i].is_active
          /\ \A l \in links : l.id = linkIssued[i].id =>
                l.test_version_id = linkIssued[i].version
          /\ {l.id : l \in {r \in links : r.test_version_id = linkIssued[i].version}}
                = {linkIssued[i].id}
          /\ \A j \in (i + 1)..Len(linkIssued) :
                linkIssued[j].version = linkIssued[i].version =>
                   /\ linkIssued[j].found = 1
                   /\ linkIssued[j].id = linkIssued[i].id
                   /\ linkIssued[j].public_id = linkIssued[i].public_id

\* a second load() of a version whose link the first one created and the
\* admin then switched off
C10_Witness ==
    /\ Len(linkIssued) >= 2
    /\ linkIssued[1].found = 0
    /\ linkIssued[2].version = linkIssued[1].version
    /\ ~linkIssued[2].is_active

(***************************************************************************)
(* The public view: what a load that found no active link shows.           *)
(***************************************************************************)
LoadEnded == pubPc \in {"done", "error"} /\ isMounted

ActiveLinkFor(pid) == \E l \in links : l.public_id = pid /\ l.is_active

\* the one state of the view that shows the generic error message
GenericFailure ==
    /\ loadError
    /\ testVersionId = NoId
    /\ testTitle = <<>>
    /\ pQuestions = <<>>
    /\ answersState = <<>>
    /\ ~FormShown

\* C11: a load of the public view that ends without an active link of the
\* address (unknown address, deactivated link) or after a store error ends
\* in one and the same state: the generic error, no version id, no title, no
\* questions, no form; the form is rendered only when a link with that
\* public_id and is_active = true is in the store.
C11_NoActiveLinkNoForm ==
    /\ (pubPc = "error" /\ isMounted) => GenericFailure
    /\ (LoadEnded /\ ~ActiveLinkFor(publicId)) => (pubPc = "error" /\ GenericFailure)
    /\ FormShown => ActiveLinkFor(publicId)

\* the load of a deactivated link's address has ended
C11_Witness ==
    /\ LoadEnded
    /\ \E l \in links : l.public_id = publicId /\ ~l.is_active
    /\ pubPc = "error"

\* the load of an address without any link has ended
C11_WitnessUnknown ==
    /\ LoadEnded
    /\ ~\E l \in links : l.public_id = publicId
    /\ pubPc = "error"

(***************************************************************************)
(* The public handleSubmit: validation.                                    *)
(***************************************************************************)
SingleLeftOpen(ans) ==
    \E i \in 1..Len(pQuestions) :
        pQuestions[i].kind = "SINGLE" /\ ans[pQuestions[i].id] = NoId

TextLeftBlank(ans) ==
    \E i \in 1..Len(pQuestions) :
        pQuestions[i].kind = "TEXT" /\ Blank(ans[pQuestions[i].id])

\* C12: a run of the public handleSubmit issues no insert when the
\* participant is blank, when after normalization a SINGLE question has no
\* option id, or when a TEXT answer is blank; with both kinds of question
\* unanswered the message is the one about choices.  While an insert is in
\* flight the form is a valid one.
C12_ValidationPrecedesWrites ==
    /\ [](ansPc # "idle" => /\ ~Blank(participant)
                            /\ ~SingleLeftOpen(ensuredAnswers)
                            /\ ~TextLeftBlank(ensuredAnswers))
    /\ [][PubSubmitStart =>
            LET open  == SingleLeftOpen(answersState')
                blank == TextLeftBlank(answersState')
            IN /\ (Blank(participant) \/ open \/ blank) <=>
                      (ansPc' = "idle" /\ ansCalls' = ansCalls /\ ansAlert' # "none")
               /\ UNCHANGED storeVars
               /\ Blank(participant) => ansAlert' = "participant"
               /\ (~Blank(participant) /\ open) => ansAlert' = "choice"
               /\ (~Blank(participant) /\ ~open /\ blank) => ansAlert' = "text"]_vars

\* the run stopped on a form with a SINGLE question without answer and a
\* blank TEXT answer, and nothing was written
C12_Witness ==
    /\ ansAlert = "choice"
    /\ SingleLeftOpen(answersState)
    /\ TextLeftBlank(answersState)
    /\ ansCalls = <<>>
    /\ submissions = OtherSubmissions

(***************************************************************************)
(* The public handleSubmit: normalization.                                 *)
(***************************************************************************)
StoredOptionsOf(qid) == {o \in options : o.question_id = qid}

SmallestOrd(qid) ==
    (CHOOSE o \in StoredOptionsOf(qid) : \A r \in StoredOptionsOf(qid) : o.ord <= r.ord).id

\* C13: a run of the public handleSubmit with a participant gives a SINGLE
\* question without selection the id of its option of smallest ord, leaves
\* every selection made and every TEXT answer as it was, and leaves a SINGLE
\* question without answer only if the question has no options.
C13_DefaultIsSmallestOrd ==
    [][(PubSubmitStart /\ ~Blank(participant)) =>
          \A i \in 1..Len(pQuestions) :
             LET q == pQuestions[i] IN
             /\ (q.kind = "SINGLE" /\ answersState[q.id] = NoId /\ StoredOptionsOf(q.id) # {})
                   => answersState'[q.id] = SmallestOrd(q.id)
             /\ (q.kind = "SINGLE" /\ answersState[q.id] # NoId)
                   => answersState'[q.id] = answersState[q.id]
             /\ q.kind = "TEXT" => answersState'[q.id] = answersState[q.id]
             /\ (q.kind = "SINGLE" /\ answersState'[q.id] = NoId)
                   => StoredOptionsOf(q.id) = {}
             /\ ansPc' # "idle" => ensuredAnswers'[q.id] = answersState'[q.id]]_vars

\* a run goes on with the default of a question of several options, which
\* is not the option of the smallest id
C13_Witness ==
    /\ ansPc = "insSubmission"
    /\ \E i \in 1..Len(pQuestions) :
          /\ Cardinality(StoredOptionsOf(pQuestions[i].id)) >= 2
          /\ ensuredAnswers[pQuestions[i].id] = SmallestOrd(pQuestions[i].id)
          /\ \E o \in StoredOptionsOf(pQuestions[i].id) : o.id < SmallestOrd(pQuestions[i].id)

\* a run goes on with a selection that is not the default
C13_WitnessKept ==
    /\ ansPc = "insSubmission"
    /\ \E i \in 1..Len(pQuestions) :
          /\ pQuestions[i].kind = "SINGLE"
          /\ ensuredAnswers[pQuestions[i].id] # SmallestOrd(pQuestions[i].id)

(***************************************************************************)
(* The public handleSubmit: the rows it writes.                            *)
(***************************************************************************)
AnswersOf(sid) == {a \in answers : a.submission_id = sid}

RenderedQuestions == {q \in questions : q.test_version_id = testVersionId}

WellFormedAnswer(a) ==
    \E q \in questions :
        /\ q.id = a.question_id
        /\ q.kind = "SINGLE" =>
              /\ a.option_id \in Ids(StoredOptionsOf(q.id))
              /\ a.free_text = NullText
        /\ q.kind = "TEXT" =>
              /\ a.option_id = NoId
              /\ a.free_text # NullText
              /\ ~Blank(a.free_text)

\* one answer for every rendered question and no other
OnePerQuestion(sid) ==
    /\ \A q \in RenderedQuestions :
          Cardinality({a \in AnswersOf(sid) : a.question_id = q.id}) = 1
    /\ \A a \in AnswersOf(sid) : a.question_id \in Ids(RenderedQuestions)

LastRecorded == CHOOSE sid \in recorded : \A r \in recorded : r <= sid

\* C14: every answer the public view has written carries, for a SINGLE
\* question, the id of one of that question's options and no text, and for a
\* TEXT question a text that is not blank and no option id; a submission's
\* answers are none (its answers insert failed or is in flight) or one for
\* every question of the rendered version; after the run that ended in the
\* navigation the submission it inserted has them all.
C14_AnswersMatchKinds ==
    /\ \A sid \in recorded :
          /\ \E sub \in submissions : sub.id = sid /\ sub.test_version_id = testVersionId
          /\ \A a \in AnswersOf(sid) : WellFormedAnswer(a)
          /\ AnswersOf(sid) = {} \/ OnePerQuestion(sid)
    /\ \A a \in answers : a.submission_id \in recorded \/ a \in OtherAnswers
    /\ ansNav => (recorded # {} /\ OnePerQuestion(LastRecorded))

\* a submission with an answer to a SINGLE and to a TEXT question went through
C14_Witness ==
    /\ ansNav
    /\ \E a, b \in AnswersOf(LastRecorded) : a.option_id # NoId /\ b.option_id = NoId

(***************************************************************************)
(* The share view: toggling a link.                                        *)
(***************************************************************************)
\* the row of the store the share view shows
ShownRow == CHOOSE l \in links : l.id = link.id

\* C16: toggleActive leaves every table but test_links as it is, deletes and
\* adds no link, leaves every other link and the public_id and
\* test_version_id of the shown link as they are, and sets the shown link's
\* is_active, in the store and in the view, to the negation of the value the
\* view shows; when the update fails the store and the shown value stay.
C16_ToggleFlipsOnlyIsActive ==
    [][toggleActive =>
          /\ UNCHANGED <<tests, versions, questions, options, submissions, answers>>
          /\ Ids(links') = Ids(links)
          /\ Cardinality(links') = Cardinality(links)
          /\ \A l \in links : l.id # link.id => l \in links'
          /\ \E l \in links' :
                /\ l.id = link.id
                /\ l.public_id = ShownRow.public_id
                /\ l.test_version_id = ShownRow.test_version_id
                /\ link'.id = link.id
                /\ link'.public_id = link.public_id
                /\ link'.is_active = l.is_active
                /\ \/ l.is_active = ~link.is_active
                   \/ links' = links /\ link' = link]_vars

\* a toggle has deactivated the shown link next to another link of its version
C16_Witness ==
    /\ link # NoLink
    /\ ~link.is_active
    /\ ~ShownRow.is_active
    /\ \E l \in links : l.id # link.id /\ l.test_version_id = ShownRow.test_version_id

(***************************************************************************)
(* The version the share view and the statistics view work on.             *)
(***************************************************************************)
Published(t) == {v \in versions : v.test_id = t /\ v.published_at # NoId}

Drafts(t) == {v \in versions : v.test_id = t /\ v.published_at = NoId}

\* the version the ordering rule names for a test that has versions
Chosen(t) ==
    IF Published(t) # {}
    THEN CHOOSE v \in Published(t) : \A w \in Published(t) :
            \/ v.published_at > w.published_at
            \/ v.published_at = w.published_at /\ v.version >= w.version
    ELSE CHOOSE v \in Drafts(t) : \A w \in Drafts(t) : v.version >= w.version

NoVersions(s) == \E t \in tests : t.slug = s /\ Published(t.id) \cup Drafts(t.id) = {}

\* C15: the share view and the statistics view resolve a test to the version
\* the rule (published_at descending with nulls last, then version
\* descending) names: the latest published one if any, else the highest
\* draft; so they agree; every link the share view inserted is a link of that
\* version; for a test without versions both loads end in their error state
\* and no link is inserted.
C15_SameVersionInBothViews ==
    /\ versionData # NoId => versionData = Chosen(testData).id
    /\ stLoad.versionData # NoId => stLoad.versionData = Chosen(stLoad.testData).id
    /\ stVersion # NoId => stVersion = Chosen(stTest).id
    /\ \A i \in 1..Len(linkIssued) :
          \A v \in versions :
             (v.id = linkIssued[i].version /\ v.test_id = stTest) => v.id = stVersion
    /\ \A l \in links \ OtherLinks :
          \E v \in versions : v.id = l.test_version_id /\ v = Chosen(v.test_id)
    /\ (NoVersions(slug) /\ linkPc \notin {"none", "selTest", "selVersion"})
          => (linkPc = "error" /\ link = NoLink)
    /\ (NoVersions(stSlug) /\ stPc \notin {"none", "selTest", "selVersion"})
          => (stPc = "error" /\ stVersion = NoId)

\* both views have resolved a test whose published version has a lower
\* number than one of its drafts
C15_Witness ==
    /\ stVersion # NoId
    /\ \E i \in 1..Len(linkIssued) : linkIssued[i].version = stVersion
    /\ \E v, w \in versions :
          /\ v.id = stVersion
          /\ w.test_id = v.test_id
          /\ v.published_at # NoId
          /\ w.published_at = NoId
          /\ w.version > v.version

\* both loads of a test without versions have ended and no link was inserted
C15_WitnessNoVersion ==
    /\ NoVersions(slug)
    /\ NoVersions(stSlug)
    /\ linkPc = "error"
    /\ stPc = "error"
    /\ links = OtherLinks

(***************************************************************************)
(* The statistics view: charts.                                            *)
(***************************************************************************)
Charts == charts(stQuestions, stOptions, stAnswers, Filtered)

FilteredIds == {Filtered[i].id : i \in 1..Len(Filtered)}

SinglesOfVersion == {q \in questions : q.test_version_id = stVersion /\ q.kind = "SINGLE"}

\* the option of a question that has k - 1 options of smaller ord
KthOption(qid, k) ==
    CHOOSE o \in StoredOptionsOf(qid) :
        Cardinality({r \in StoredOptionsOf(qid) : r.ord < o.ord}) = k - 1

\* C17: the statistics view has one chart for every SINGLE question of the
\* chosen version and none for a TEXT question; the chart's categories are
\* the question's options in ascending ord, with or without answers, and the
\* count of a category is the number of stored answers with that option_id
\* whose submission is in the filtered set.
C17_BarsCountFilteredAnswers ==
    StatsShown =>
        /\ Len(Charts) = Cardinality(SinglesOfVersion)
        /\ {Charts[i].question : i \in 1..Len(Charts)} = Ids(SinglesOfVersion)
        /\ \A i \in 1..Len(Charts) :
              LET qid == Charts[i].question IN
              /\ Len(Charts[i].labels) = Cardinality(StoredOptionsOf(qid))
              /\ Len(Charts[i].data) = Cardinality(StoredOptionsOf(qid))
              /\ \A k \in 1..Len(Charts[i].labels) :
                    /\ Charts[i].labels[k] = KthOption(qid, k).text
                    /\ Charts[i].data[k] =
                          Cardinality({a \in answers :
                              /\ a.option_id = KthOption(qid, k).id
                              /\ a.submission_id \in FilteredIds})

\* a chart shows an option with answers and an option without, while the
\* filter keeps one submission and drops another that has an answer
C17_Witness ==
    /\ StatsShown
    /\ Filtered # <<>>
    /\ Len(Filtered) < Len(stSubmissions)
    /\ \E i \in 1..Len(Charts) :
          \E j, k \in 1..Len(Charts[i].data) :
              Charts[i].data[j] = 0 /\ Charts[i].data[k] > 0
    /\ \E a \in stAnswers : a.option_id # NoId /\ a.submission_id \notin FilteredIds

\* the view shows a TEXT question, which has no chart
C17_WitnessText ==
    /\ StatsShown
    /\ \E i \in 1..Len(stQuestions) :
          /\ stQuestions[i].kind = "TEXT"
          /\ \A j \in 1..Len(Charts) : Charts[j].question # stQuestions[i].id

(***************************************************************************)
(* The statistics view: the date filter.                                   *)
(***************************************************************************)
\* the day of an instant on the calendar of the administrator's browser
LocalDay(t) == (t + utcOffset) \div DayLen

InLocalDayRange(x) ==
    /\ dateFrom # NoId => LocalDay(x.created_at) >= dateFrom
    /\ dateTo # NoId => LocalDay(x.created_at) <= dateTo

KeptByFilter(x) == \E i \in 1..Len(Filtered) : Filtered[i] = x

\* C18: with no participant query, the filter keeps exactly the loaded
\* submissions created on the local days dateFrom to dateTo, both included,
\* an unset bound not filtering, whatever the browser's offset from UTC.
C18_InclusiveLocalDayRange ==
    (StatsShown /\ Blank(participantQuery)) =>
        \A i \in 1..Len(stSubmissions) :
            KeptByFilter(stSubmissions[i]) <=> InLocalDayRange(stSubmissions[i])

\* the same for the browsers at or east of UTC
LocalDayRangeEastOfUtc == utcOffset >= 0 => C18_InclusiveLocalDayRange

(***************************************************************************)
(* The statistics view: the exported file, read back as RFC 4180 asks.     *)
(***************************************************************************)
\* the records of a text all of whose fields are quoted: a quote inside a
\* field is a pair of quotes; the result is <<>> for any other text
RECURSIVE ReadCsv(_, _, _, _, _, _)
ReadCsv(text, i, quoted, field, row, rows) ==
    IF i > Len(text)
    THEN IF quoted THEN <<>> ELSE Append(rows, Append(row, field))
    ELSE IF quoted
    THEN IF text[i] # "\""
         THEN ReadCsv(text, i + 1, TRUE, Append(field, text[i]), row, rows)
         ELSE IF i < Len(text) /\ text[i + 1] = "\""
         THEN ReadCsv(text, i + 2, TRUE, Append(field, "\""), row, rows)
         ELSE IF i = Len(text) \/ text[i + 1] \in {",", "\n"}
         THEN ReadCsv(text, i + 1, FALSE, field, row, rows)
         ELSE <<>>
    ELSE IF text[i] = "\"" /\ field = <<>> /\ (i = 1 \/ text[i - 1] \in {",", "\n"})
         THEN ReadCsv(text, i + 1, TRUE, field, row, rows)
    ELSE IF text[i] = "," /\ text[i - 1] = "\""
         THEN ReadCsv(text, i + 1, FALSE, <<>>, Append(row, field), rows)
    ELSE IF text[i] = "\n" /\ text[i - 1] = "\""
         THEN ReadCsv(text, i + 1, FALSE, <<>>, <<>>, Append(rows, Append(row, field)))
    ELSE <<>>

\* what the file is to hold for the filtered submissions
ExpectedRecords ==
    <<CsvHeader>> \o
    [i \in 1..Len(Filtered) |->
        <<StringOf(Filtered[i].id), Filtered[i].participant,
          StringOf(Filtered[i].created_at)>>]

\* C19: an export with a filtered set that is not empty produces a file that
\* reads back, every field being quoted and an embedded quote doubled, as the
\* header submission_id, participant, created_at and one record per filtered
\* submission in the filtered order; an export with an empty filtered set
\* produces nothing.
C19_CsvReadsBack ==
    [][handleExportCsv =>
          IF Filtered = <<>>
          THEN csv' = csv
          ELSE /\ csv' # <<>>
               /\ ReadCsv(csv', 1, FALSE, <<>>, <<>>, <<>>) = ExpectedRecords]_vars

\* the file of two submissions holds the participant J"n as "J""n"
C19_Witness ==
    /\ Len(ReadCsv(csv, 1, FALSE, <<>>, <<>>, <<>>)) = 3
    /\ \E k \in 1..Len(csv) :
          k + 5 <= Len(csv) /\ SubSeq(csv, k, k + 5) = <<"\"", "J", "\"", "\"", "n", "\"">>

(***************************************************************************)
(* The slugs of the authored tests.                                        *)
(***************************************************************************)
\* C20: no two tests of the store have the same slug, whatever their titles.
C20_SlugsPairwiseDistinct ==
    \A a, b \in tests : a.id # b.id => a.slug # b.slug

\* two authored tests of one title whose slugs differ
TwoTestsOfOneTitle ==
    \E a, b \in tests \ OtherTests : a.id # b.id /\ a.title = b.title /\ a.slug # b.slug

(***************************************************************************)
(* Two administrators open the share view of one test.                     *)
(***************************************************************************)
\* C21: nothing ties the insert of a link to the lookup before it: a load
\* that passed the lookup and whose insert succeeds adds one TestLink of a
\* fresh public_id to its version, whatever another load has inserted for
\* that version in between; so two loads that both passed the lookup leave
\* two TestLinks for one version.
C21_InsertFollowsStaleLookup ==
    [][/\ (linkPc = "insLink" /\ linkPc' = "qr") =>
             \E l \in links' \ links :
                /\ links' = links \cup {l}
                /\ l.test_version_id = versionData
                /\ \A k \in links : k.public_id # l.public_id
       /\ (peerPc = "insLink" /\ peerPc' = "qr") =>
             \E l \in links' \ links :
                /\ links' = links \cup {l}
                /\ l.test_version_id = peerVersion
                /\ \A k \in links : k.public_id # l.public_id]_vars

\* the first load of either administrator found no link, both went on, and
\* the version holds two links of two public_ids
C21_Witness ==
    /\ loads = 1
    /\ lpFound = 0
    /\ linkPc \in {"qr", "done"}
    /\ peerPc \in {"qr", "done"}
    /\ \E a, b \in links \ OtherLinks :
          /\ a.test_version_id = b.test_version_id
          /\ a.public_id # b.public_id
          /\ Cardinality(ExistingLinks(a.test_version_id)) = 2

(***************************************************************************)
(* A store call of the cascade deletion fails.                             *)
(***************************************************************************)
\* the rows of the snapshot that a delete call of the sequence removes
SnapRowsLeft(call) ==
    CASE call = "delAnswers"   -> {a \in answers : a.id \in delSnap.answers}
      [] call = "delSubs"      -> {x \in submissions : x.id \in delSnap.submissions}
      [] call = "delOptions"   -> {o \in options : o.id \in delSnap.options}
      [] call = "delQuestions" -> {q \in questions : q.id \in delSnap.questions}
      [] call = "delLinks"     -> {l \in links : l.id \in delSnap.links}
      [] call = "delVersions"  -> {v \in versions : v.id \in delSnap.versions}
      [] OTHER                 -> {}

\* C22: the step in which a store call of the deletion fails ends the
\* sequence (no further call is issued, the handler is idle), changes no row
\* of the store, alerts the failure and leaves the local lists of the
\* dashboard as they were; what the earlier delete calls removed is still
\* removed and the Test row is still there.  The Test row goes, and the local
\* lists change, only in the step that ends a deletion without any failure.
C22_FailureStopsTheCascade ==
    [][/\ (delPc # "idle" /\ delFailedCall' # "none") =>
             /\ delFailedCall' = delPc
             /\ delPc' = "idle"
             /\ delCalls' = delCalls
             /\ delAlert' = "fail"
             /\ UNCHANGED storeVars
             /\ UNCHANGED <<dTests, dVersions, dSubs>>
             /\ delTarget \in Ids(tests')
             /\ \A k \in 1..(Len(delCalls) - 1) : SnapRowsLeft(delCalls[k])' = {}
       /\ (tests' # tests \/ <<dTests, dVersions, dSubs>>' # <<dTests, dVersions, dSubs>>) =>
             /\ delPc = "delTest"
             /\ delFailedCall' = "none"
             /\ delAlert' = "ok"
             /\ delTarget \notin Ids(tests')]_vars

\* the delete of the submissions failed after the answers were removed
C22_Witness ==
    /\ delPc = "idle"
    /\ delAlert = "fail"
    /\ delFailedCall = "delSubs"
    /\ delSnap.answers # {}
    /\ AnswersOfSubs(delSnap.submissions) = {}
    /\ SubsOfVersions(delSnap.versions) # {}
    /\ delTarget \in Ids(tests) /\ delTarget \in Ids(dTests)

(***************************************************************************)
(* The two inserts of a submission.                                        *)
(***************************************************************************)
\* C23: Answers are written only by the step that follows a successful
\* Submission insert, for the Submission that insert created; the redirect
\* happens only in the step in which the Answers insert succeeds; a failed
\* Submission insert writes nothing and ends the handler without redirect;
\* a failed Answers insert ends the handler without redirect and leaves the
\* store as it was, the Submission of this run in it without any Answer.
C23_SubmissionThenAnswers ==
    [][/\ answers' # answers =>
             /\ ansPc = "insAnswers"
             /\ submissionId \in Ids(submissions)
             /\ \A a \in answers' \ answers : a.submission_id = submissionId
       /\ (ansNav' /\ ~ansNav) =>
             /\ ansPc = "insAnswers"
             /\ submissionId \in Ids(submissions')
             /\ Cardinality({a \in answers' : a.submission_id = submissionId}) = Len(pQuestions)
       /\ (ansPc = "insSubmission" /\ ansPc' = "idle") =>
             /\ UNCHANGED storeVars
             /\ ~ansNav'
             /\ ansAlert' = "error"
       /\ (ansPc = "insAnswers" /\ ansPc' = "idle" /\ ~ansNav') =>
             /\ UNCHANGED storeVars
             /\ submissionId \in Ids(submissions')
             /\ {a \in answers' : a.submission_id = submissionId} = {}
             /\ ansAlert' = "answers"]_vars

\* the Answers insert of a form with questions failed: the Submission of the
\* run is in the store without Answers and the view stays on the form
C23_Witness ==
    /\ ansPc = "idle"
    /\ ansAlert = "answers"
    /\ ~ansNav
    /\ ~pubSubmitting
    /\ pQuestions # <<>>
    /\ recorded # {}
    /\ LastRecorded \in Ids(submissions)
    /\ AnswersOf(LastRecorded) = {}

(***************************************************************************)
(* Requests that return after the cleanup of their effect has run.         *)
(***************************************************************************)
\* C24: once the cleanup of a load effect has run, no step changes what the
\* view shows: with the dashboard's load cancelled its lists, error and
\* loading flag stay as they are; with the public form unmounted its title,
\* version, questions, answers and error stay as they are and its load never
\* counts as ended; with the guard's view unmounted its state stays as it
\* is, and no check whose cleanup has run changes the state when it
\* returns.  The requests still return: the loads and checks reach their end.
C24_LateResultsDiscarded ==
    [][/\ dashCancelled =>
             UNCHANGED <<dTests, dVersions, dSubs, dashError, dashLoading>>
       /\ ~isMounted =>
             /\ UNCHANGED <<testTitle, testVersionId, pQuestions, answersState, loadError>>
             /\ ~LoadEnded'
       /\ ~viewMounted => UNCHANGED gState
       /\ \A i \in 1..Len(checks) :
             (~checks[i].isMounted /\ checks'[i] # checks[i]) => UNCHANGED gState]_vars

\* all three were left in flight and their requests have returned since: the
\* dashboard's load after a successful tests query, the public load with its
\* rows, the access check with an administrator's profile
C24_Witness ==
    /\ dashCancelled /\ dashPc = "done" /\ dashLoading /\ dTests = {} /\ tests # {}
    /\ ~isMounted /\ pubPc = "done" /\ testVersionId = NoId
    /\ ~viewMounted
    /\ \E i \in 1..Len(checks) : checks[i].pc = "done" /\ checks[i].result = "suppressed"

\* the guard's view was left before its first check found an administrator
C24_WitnessGuard ==
    /\ ~viewMounted
    /\ gState = "loading"
    /\ \E i \in 1..Len(checks) : checks[i].pc = "done" /\ checks[i].result = "suppressed"

(***************************************************************************)
(* An access check that outlives its effect.                               *)
(***************************************************************************)
\* C25: the cleanup of the guard's effect holds back the authorized state and
\* nothing else.  A check whose cleanup has run and that finds no session or
\* no administrator profile ends as unauthorized and issues its redirect to
\* /login exactly as a live check does (the main hook omits it, cleanup or
\* not, when the check started at /login); in the variant hook such a check
\* with a session first awaits the sign-out and redirects when that returns.
\* A check whose cleanup has run and that finds an administrator changes
\* nothing but its own record.
C25_CleanupHoldsBackOnlyTheState ==
    [][\A i \in 1..Len(checks) :
          (~checks[i].isMounted /\ checks'[i] # checks[i]) =>
             /\ gState' = gState
             /\ (checks'[i].pc = "done" /\ checks'[i].result = "unauthorized") =>
                   IF hook = "variant" \/ checks[i].path # "/login"
                   THEN \E r \in redirects' \ redirects : r.check = i
                   ELSE redirects' = redirects
             /\ (checks[i].pc = "getProfile" /\ checks'[i].result = "unauthorized"
                   /\ hook = "variant") =>
                   /\ checks'[i].pc = "signOut"
                   /\ redirects' = redirects
             /\ checks[i].pc = "signOut" =>
                   /\ checks'[i].pc = "done"
                   /\ authSession' \in {authSession, NoSession}
             /\ checks'[i].result # "authorized"
             /\ checks'[i].result = "suppressed" => redirects' = redirects]_vars

\* the path changed under a pending check of the main hook, which then found
\* itself unauthorized and redirected from the new path
C25_Witness ==
    /\ hook = "main"
    /\ gState = "loading"
    /\ \E r \in redirects :
          /\ ~checks[r.check].isMounted
          /\ checks[r.check].result = "unauthorized"
          /\ r.at # checks[r.check].path

\* the variant hook's view was left under a pending check, which then signed
\* the user out and redirected
C25_WitnessVariant ==
    /\ hook = "variant"
    /\ ~viewMounted
    /\ gState = "loading"
    /\ authSession = NoSession
    /\ \E r \in redirects :
          /\ checks[r.check].truth \in {"user", "none"}
          /\ checks[r.check].result = "unauthorized"
          /\ checks[r.check].pc = "done"

(***************************************************************************)
(* The guard's state over the life of one instance.                        *)
(***************************************************************************)
\* C26: the guard's state, once authorized, stays authorized in every step,
\* also in the step in which a check started by a path change finds no
\* session or no administrator profile: that check ends unauthorized, and
\* the state is as before.
C26_AuthorizedIsKept ==
    [][/\ gState = "authorized" => gState' = "authorized"
       /\ \A i \in 1..Len(checks) :
             (checks[i].result = "pending" /\ checks'[i].result = "unauthorized") =>
                gState' = gState]_vars

\* a live re-check after a path change ended unauthorized and redirected
\* while the mounted view still counts as authorized
C26_Witness ==
    /\ hook = "main"
    /\ viewMounted
    /\ gState = "authorized"
    /\ Len(checks) = 2
    /\ checks[1].result = "authorized"
    /\ checks[2].isMounted
    /\ checks[2].result = "unauthorized"
    /\ \E r \in redirects : r.check = 2

(***************************************************************************)
(* The share view of a version that has more than one link.                *)
(***************************************************************************)
\* C27: a lookup that meets two or more links of the resolved version can go
\* on to the insert, as one that meets none does; from there a successful
\* insert adds one link to that version, so a load of the share view that
\* completes for such a version has raised its number of links by one.  A
\* lookup that ends the load with an error has inserted nothing, and only a
\* lookup that met other than one link goes on to the insert.
C27_ManyRowsCountAsNoLink ==
    /\ [](linkPc = "selLink" /\ Cardinality(ExistingLinks(versionData)) # 1 =>
             ENABLED (LinkLookupReturns /\ linkPc' = "insLink"))
    /\ [][/\ (linkPc = "selLink" /\ linkPc' = "insLink") =>
                /\ Cardinality(ExistingLinks(versionData)) # 1
                /\ lpFound' = Cardinality(ExistingLinks(versionData))
          /\ (linkPc = "selLink" /\ linkPc' = "error") => UNCHANGED storeVars
          /\ (linkPc = "insLink" /\ linkPc' = "qr") =>
                /\ Cardinality({l \in links' : l.test_version_id = versionData})
                     = lpFound + 1
                /\ ensuredLink'.id \in Ids(links') \ Ids(links)
          /\ Ids(links') # Ids(links) => (linkPc = "insLink" /\ linkPc' = "qr")]_vars

\* two loads in a row met two and then three links of one version and each
\* added another; the view shows the fourth
C27_Witness ==
    /\ linkPc = "done"
    /\ ~lpError
    /\ Len(linkIssued) = 2
    /\ linkIssued[1].found = 2
    /\ linkIssued[2].found = 3
    /\ linkIssued[1].version = linkIssued[2].version
    /\ linkIssued[1].id # linkIssued[2].id
    /\ link.id = linkIssued[2].id
    /\ Cardinality(ExistingLinks(linkIssued[2].version)) = 4

(***************************************************************************)
(* The link is switched off under a loaded form.                           *)
(***************************************************************************)
\* C28: a submit of the public form that has been started can insert its
\* Submission, and then its Answers, whatever the link's is_active says by
\* then: the inserts name the version and read no link.  And no Submission
\* is inserted, nor a submit started, by a view whose testVersionId is
\* unset; testVersionId is set at the end of a load to the version that
\* load's lookup found under an active link of the address.
C28_ActivityCheckedAtLoadOnly ==
    /\ [](ansPc = "insSubmission" =>
             ENABLED (InsSubmissionReturns /\ Ids(submissions') # Ids(submissions)))
    /\ [](ansPc = "insAnswers" =>
             ENABLED (InsAnswersReturns /\ ansNav'))
    /\ [][/\ Ids(submissions') # Ids(submissions) =>
                /\ testVersionId # NoId
                /\ \A x \in submissions' \ submissions : x.test_version_id = testVersionId
          /\ (ansPc = "idle" /\ ansPc' # "idle") => testVersionId # NoId
          /\ (testVersionRaw = NoVersion /\ testVersionRaw' # NoVersion) =>
                \E l \in links : /\ l.public_id = publicId
                                 /\ l.is_active
                                 /\ l.test_version_id = testVersionRaw'.id
          /\ (testVersionId = NoId /\ testVersionId' # NoId) =>
                testVersionId' = testVersionRaw.id]_vars

\* the form's Submission and Answers are in the store, the participant is
\* on the confirmation view, and the link of the form is inactive
C28_Witness ==
    /\ ansNav
    /\ recorded # {}
    /\ LastRecorded \in Ids(submissions)
    /\ AnswersOf(LastRecorded) # {}
    /\ ~ActiveLinkFor(publicId)
    /\ link.public_id = publicId
    /\ ~link.is_active

\* the submit is in flight, nothing inserted yet, and the link is inactive
C28_WitnessInFlight ==
    /\ ansPc = "insSubmission"
    /\ recorded = {}
    /\ ~ActiveLinkFor(publicId)

\* a load that met the link inactive shows no form and nothing was submitted
C28_WitnessRefused ==
    /\ pubPc = "error"
    /\ loadError
    /\ testVersionId = NoId
    /\ \E l \in links : l.public_id = publicId /\ ~l.is_active
    /\ recorded = {}

(***************************************************************************)
(* A submission arrives while its test is being deleted, in a store that   *)
(* enforces the foreign keys: a write that would leave a reference without *)
(* its row is refused, which the caller sees as a failed call.             *)
(***************************************************************************)
\* the public form of version 11 as loadData() leaves it, the participant's
\* name typed in
FormLoaded ==
    /\ pubPc = "done"
    /\ publicId = 41
    /\ testVersionRaw = NoVersion
    /\ typedQuestions = <<>>
    /\ \E typed \in SortedByOrd({QuestionRow(q) : q \in QuestionsOfVersions({11})}) :
       \E optionsData \in SortedByOrd(OptionsOfQuestions(singleQuestionIds(typed))) :
          /\ pQuestions = normalizedQuestions(typed, optionsData)
          /\ answersState = [q \in {typed[i].id : i \in 1..Len(typed)} |-> NoId]
    /\ testVersionId = 11
    /\ loadError = FALSE
    /\ isMounted = TRUE
    /\ testRow = <<>>
    /\ testTitle = <<"t">>
    /\ participant = <<" ", "p">>
    /\ pubSubmitting = FALSE
    /\ ansPc = "idle"
    /\ ensuredAnswers = <<>>
    /\ submissionId = NoId
    /\ ansAlert = "none"
    /\ ansNav = FALSE
    /\ ansCalls = <<>>
    /\ ansRuns = 0
    /\ recorded = {}

\* the test has one version with an active link, questions of one option
\* each, and submissions with or without an answer; the dashboard lists it
\* and the form is open
OrphanInit ==
    /\ \E nQ \in 0..MaxRows, nS \in 0..MaxRows, nA \in 0..MaxRows :
          /\ tests = TargetTests \cup OtherTests
          /\ versions = TargetVersions(1) \cup OtherVersions
          /\ questions = TargetKinds(TargetQuestions(1, nQ), TargetOptions(1, nQ, nQ))
                            \cup OtherQuestions
          /\ options = TargetOptions(1, nQ, nQ) \cup OtherOptions
          /\ links = TargetLinks(1, 1) \cup OtherLinks
          /\ submissions = TargetSubmissions(1, nS) \cup OtherSubmissions
          /\ answers = TargetAnswers(1, nQ, nQ, nS, nA) \cup OtherAnswers
    /\ nextId = 100
    /\ GuardIdle("/dashboard")
    /\ DashLoaded
    /\ DelIdle
    /\ FormFresh
    /\ SubIdle
    /\ LinkIdle
    /\ FormLoaded
    /\ StatsIdle(0)
    /\ MoreIdle

OrphanNext ==
    \/ DeleteStart(1)
    \/ SelVersionsReturns
    \/ SelSubsReturns
    \/ SelQuestionsReturns
    \/ \E call \in {"delAnswers", "delSubs", "delOptions", "delQuestions",
                     "delLinks", "delVersions"} : DeleteReturns(call) /\ FKIntact'
    \/ DelTestReturns /\ FKIntact'
    \/ PubSubmitStart
    \/ InsSubmissionReturns /\ FKIntact'
    \/ InsAnswersReturns /\ FKIntact'

SpecOrphan == OrphanInit /\ [][OrphanNext]_vars

\* rows of the deleted test's versions: submissions, and answers to their
\* questions or of their submissions
RowsOfDeletedTest ==
    SubsOfVersions(delSnap.versions)
       \cup {a \in answers : a.question_id \in delSnap.questions}
       \cup AnswersOfSubs(recorded \cup delSnap.submissions)

\* C29: in a store that enforces the foreign keys, a deletion that has
\* reported success has left no Submission and no Answer of the test's
\* versions, the rows a participant sent meanwhile included; and a deletion
\* run that ends while a Submission sent by the participant is in the store
\* ends with the failure alert.
C29_SuccessLeavesNoRows ==
    /\ [](delAlert = "ok" =>
             /\ RowsOfDeletedTest = {}
             /\ recorded \cap Ids(submissions) = {}
             /\ delTarget \notin Ids(tests))
    /\ [][(delPc # "idle" /\ delPc' = "idle" /\ recorded' \cap Ids(submissions') # {}) =>
             /\ delAlert' = "fail"
             /\ delTarget \in Ids(tests')]_vars

\* the deletion succeeded and nothing is left of the Submission and the
\* Answers that the participant had sent
C29_Witness ==
    /\ delAlert = "ok"
    /\ delPc = "idle"
    /\ recorded # {}
    /\ ansNav
    /\ delSnap.questions # {}
    /\ RowsOfDeletedTest = {}

\* a Submission that arrived after the ids were fetched made the delete of
\* the versions fail
C29_WitnessLateRow ==
    /\ delAlert = "fail"
    /\ delFailedCall = "delVersions"
    /\ recorded # {}
    /\ recorded \cap submissionIds = {}
    /\ recorded \subseteq Ids(submissions)
    /\ \E i \in 1..Len(delCalls) : delCalls[i] = "delSubs"

\* the Submission insert came after the version was gone and was refused
C29_WitnessRefused ==
    /\ delAlert = "ok"
    /\ ansRuns > 0
    /\ ansPc = "idle"
    /\ ansAlert = "error"
    /\ recorded = {}

(***************************************************************************)
(* The loading and submitting flags, when every request returns and the    *)
(* views stay mounted.  The administrator is at the login form, at the     *)
(* authoring form or at the list; or a participant has the public form     *)
(* open.                                                                   *)
(***************************************************************************)
LiveInit ==
    /\ \E nQ \in 0..MaxRows :
          /\ tests = TargetTests \cup OtherTests
          /\ versions = TargetVersions(1) \cup OtherVersions
          /\ questions = TargetKinds(TargetQuestions(1, nQ), TargetOptions(1, nQ, nQ))
                            \cup OtherQuestions
          /\ options = TargetOptions(1, nQ, nQ) \cup OtherOptions
          /\ links = TargetLinks(1, 1) \cup OtherLinks
          /\ submissions = OtherSubmissions
          /\ answers = OtherAnswers
    /\ nextId = 100
    /\ \E path \in {"/login", "/tests/new", "/dashboard"} : GuardIdle(path)
    /\ DashIdle
    /\ DelIdle
    /\ FormFresh
    /\ SubIdle
    /\ LinkIdle
    /\ \/ FormLoaded /\ pathname = "/dashboard"
       \/ PubIdle
    /\ StatsIdle(0)
    /\ MoreIdle

LiveNext ==
    \/ LoginSubmitStart
    \/ SignInReturns
    \/ DashLoadStart
    \/ DashTestsReturn
    \/ DashVersionsReturn
    \/ DashSubsReturn
    \/ \E t \in TitleTexts : SetTitle(t)
    \/ \E value \in QuestionTexts : handleTextChange(1, value)
    \/ \E kind \in Kinds : handleKindChange(1, kind)
    \/ \E k \in 1..2, value \in OptionTexts : handleOptionChange(1, k, value)
    \/ SubmitStart
    \/ InsTestReturns
    \/ InsVersionReturns
    \/ InsQuestionsReturns
    \/ InsOptionsReturns
    \/ PubSubmitStart
    \/ InsSubmissionReturns
    \/ InsAnswersReturns

\* every request that was sent returns
RequestsReturn ==
    /\ WF_vars(SignInReturns)
    /\ WF_vars(DashTestsReturn)
    /\ WF_vars(DashVersionsReturn)
    /\ WF_vars(DashSubsReturn)
    /\ WF_vars(InsTestReturns)
    /\ WF_vars(InsVersionReturns)
    /\ WF_vars(InsQuestionsReturns)
    /\ WF_vars(InsOptionsReturns)
    /\ WF_vars(InsSubmissionReturns)
    /\ WF_vars(InsAnswersReturns)

SpecLive == LiveInit /\ [][LiveNext]_vars /\ RequestsReturn

\* C30: with every request returning and the views mounted, a data load of
\* the dashboard that has started comes to its end with isLoading false, and
\* the submitting flag of the login form, of the authoring form and of the
\* public form, once set, is reset, whether the handler's calls succeeded or
\* failed.
C30_FlagsAreReset ==
    /\ (dashPc \in {"tests", "versions", "subs"}) ~> (dashPc = "done" /\ ~dashLoading)
    /\ loginSubmitting ~> (~loginSubmitting /\ loginPc = "idle")
    /\ isSubmitting ~> (~isSubmitting /\ subPc = "idle")
    /\ pubSubmitting ~> (~pubSubmitting /\ ansPc = "idle")

\* the dashboard's load failed and the authoring submit failed at a store
\* call; both flags are reset
C30_Witness ==
    /\ dashPc = "done" /\ dashError /\ ~dashLoading
    /\ authRan /\ authAlert = "error" /\ authFailedCall # "none"
    /\ ~isSubmitting /\ subPc = "idle"

\* a load that ended with its data
C30_WitnessLoaded ==
    /\ dashPc = "done" /\ ~dashError /\ ~dashLoading
    /\ dTests = tests /\ dVersions = versions

\* a sign-in that was refused, or a form sent empty
C30_WitnessLoginFailed ==
    /\ pathname = "/login" /\ loginPc = "idle" /\ loginError /\ ~loginSubmitting

\* a sign-in that succeeded
C30_WitnessLoggedIn ==
    /\ pathname = "/dashboard" /\ loginPc = "idle" /\ ~loginError /\ ~loginSubmitting
    /\ authSession = "u2"

\* a public submit whose Answers insert failed, and one that went through
C30_WitnessPublicFailed ==
    /\ ansAlert = "answers" /\ ~pubSubmitting /\ ansPc = "idle"

C30_WitnessPublicSent ==
    /\ ansNav /\ ~pubSubmitting /\ ansPc = "idle"

====
